---- MODULE Spec2Model ----
(***************************************************************************)
(* gsr-bot: the PKCE linking protocol, the token refresh service and the   *)
(* leaderboard pass of src/index.js, as one state machine.                 *)
(*                                                                         *)
(* One action is one run of JavaScript between two suspension points: a    *)
(* handler runs from its entry (or from the arrival of the response it     *)
(* awaits) to its next `await fetch`, its reply or its return.             *)
(*                                                                         *)
(* A JavaScript object is a function from its defined property names to    *)
(* their values; a property that is undefined is not in the domain.  The   *)
(* data directory is assumed readable and writable, so loadLinkedDrivers   *)
(* and saveLinkedDrivers do not take their catch branches.                 *)
(***************************************************************************)
EXTENDS Integers, Sequences, FiniteSets, TLC

\* ---------------------------------------------------------------- bounds
\* The clock takes the values k * TEN_MINUTES, k <= MaxLong.
MaxLong == 2
\* Number of handlers (callbacks, leaderboard invocations) suspended on a
\* provider call at the same time.
MaxInFlight == 2
\* Number of /oauth/login requests served (each draws a fresh verifier).
MaxLogins == 2
\* Number of leaderboard invocations (slash command or weekly job) started.
MaxRuns == 1
\* Number of /stats commands started.
MaxStats == 1
\* Largest rank a record carries from an earlier ranking.
MaxRank == 4
\* Number of leaderboard invocations started where their sequence matters.
MaxViews == 2

\* ------------------------------------------------------------- constants
TEN_MINUTES == 10 * 60 * 1000
REFRESH_BUFFER == 60000

\* ---------------------------------------------------------------- inputs
\* The `state` query parameter: a Discord user id, or empty/missing.
StateParams == {"", "d1"}
\* The `code` query parameter: empty/missing, or an authorization code.
CodeParams == {"", "c1"}

\* Discord users who issue slash commands or are named in /unlink.
Users == {"d1"}
\* The `name` option of /unlinkname.
NameQueries == { <<" ", "J", "e">>, <<"n", "o">>, <<"x">>, <<" ">> }
\* /unlink: who asks (an administrator or not) and the user option.
UnlinkRequests ==
  { [admin |-> FALSE, target |-> "d1"] }
  \cup { [admin |-> TRUE, target |-> t] : t \in Users \cup {""} }
\* /unlinkname: who asks and the name option.
UnlinkNameRequests ==
  { [admin |-> FALSE, name |-> <<"x">>] }
  \cup { [admin |-> TRUE, name |-> n] : n \in NameQueries }
\* Values of the last point of the iRating chart.
Ratings == {1500, 2000}

EmptyObj == [k \in {} |-> ""]

Has(o, k) == k \in DOMAIN o

\* Token endpoint bodies (JSON).  expires_in is in seconds.
GrantBodies ==
  { [access_token |-> "a1", refresh_token |-> "r1", expires_in |-> 660],
    [access_token |-> "a2", refresh_token |-> "r2", expires_in |-> 660] }

ErrorBodies == { [error |-> "invalid_grant"], EmptyObj }

\* What a fetch of the token endpoint can come back with: the request
\* rejects (threw = TRUE), or a response with res.ok and a JSON body.
ExchangeReplies ==
  { [threw |-> TRUE, ok |-> FALSE, body |-> EmptyObj] }
  \cup { [threw |-> FALSE, ok |-> TRUE, body |-> b] : b \in GrantBodies }
  \cup { [threw |-> FALSE, ok |-> FALSE, body |-> b] : b \in ErrorBodies }
  \cup { [threw |-> FALSE, ok |-> TRUE, body |-> [error |-> "invalid_grant"]] }

\* Bodies of a successful refresh: the provider may omit refresh_token.
RefreshBodies ==
  { [access_token |-> "a3", refresh_token |-> "r3", expires_in |-> 660],
    [access_token |-> "a3", expires_in |-> 660] }

RefreshReplies ==
  { [threw |-> TRUE, ok |-> FALSE, body |-> EmptyObj],
    [threw |-> FALSE, ok |-> FALSE, body |-> EmptyObj] }
  \cup { [threw |-> FALSE, ok |-> TRUE, body |-> b] : b \in RefreshBodies }

\* chart_data root document: with or without the link to the payload.
RootReplies ==
  { [threw |-> TRUE, ok |-> FALSE, body |-> EmptyObj],
    [threw |-> FALSE, ok |-> FALSE, body |-> EmptyObj],
    [threw |-> FALSE, ok |-> TRUE, body |-> EmptyObj],
    [threw |-> FALSE, ok |-> TRUE, body |-> [link |-> "chart"]] }

\* The payload behind the link: data is the rating time series.
ChartBodies ==
  { EmptyObj, [data |-> <<>>] }
  \cup { [data |-> <<[value |-> v]>>] : v \in Ratings }
  \cup { [data |-> <<[value |-> 2000], [value |-> 1500]>>] }

ChartReplies ==
  { [threw |-> TRUE, ok |-> FALSE, body |-> EmptyObj],
    [threw |-> FALSE, ok |-> FALSE, body |-> EmptyObj] }
  \cup { [threw |-> FALSE, ok |-> TRUE, body |-> b] : b \in ChartBodies }

\* Raw profile names: a sequence of characters.
JesseDoe == <<"J", "e", "s", "s", "e", " ", " ", "d", "o", "e">>

\* Profile bodies: with the name and the customer id, or with neither.
ProfileBodies ==
  { [iracing_name |-> JesseDoe, iracing_cust_id |-> "101"], EmptyObj }

ProfileReplies ==
  { [threw |-> TRUE, ok |-> FALSE, body |-> EmptyObj],
    [threw |-> FALSE, ok |-> FALSE, body |-> EmptyObj] }
  \cup { [threw |-> FALSE, ok |-> TRUE, body |-> b] : b \in ProfileBodies }

\* ----------------------------------------------------------------- state
VARIABLES
  now,        \* Date.now(), in milliseconds
  pkceStore,  \* index.js:621, state -> {verifier, createdAt}
  issued,     \* number of verifiers drawn so far by crypto.randomBytes
  file,       \* contents of linked-drivers.json: a sequence of JSON objects
  callbacks,  \* the /oauth/callback requests suspended on a provider call
  runs,       \* number of leaderboard invocations started so far
  passes,     \* the showLeaderboard invocations suspended on a provider call
  gvat,       \* history: the latest getValidAccessToken call and its outcome
  lastLogin,  \* history: state -> the verifier of its most recent login
  exchanged,  \* history: the verifiers sent in token-exchange requests
  last,       \* history: the latest step of the linking flow and its reply
  statsCmds,  \* the showStats invocations suspended on a request
  statsRuns,  \* number of /stats commands started so far
  cron,       \* part_004: the weekly job's drivers and its announcements
  unlinked,   \* history: the ids unlinked and not linked again since
  histories,  \* the histories this run keeps, the same in all its states
  call,       \* a function of the program called on its own: its argument,
              \* the text it wrote and its result
  baseline    \* history: the store as the last weekly pass saved it, and
              \* the invocations that were in flight then

vars ==
  <<now, pkceStore, issued, file, callbacks, runs, passes, gvat, lastLogin,
    exchanged, last, statsCmds, statsRuns, cron, unlinked, histories, call,
    baseline>>

\* --------------------------------------------------------------- strings
IsSpace(c) == c = " "

RECURSIVE trimStart(_)
trimStart(s) == IF s # <<>> /\ IsSpace(s[1]) THEN trimStart(Tail(s)) ELSE s

RECURSIVE trimEnd(_)
trimEnd(s) ==
  IF s # <<>> /\ IsSpace(s[Len(s)]) THEN trimEnd(SubSeq(s, 1, Len(s) - 1)) ELSE s

trim(s) == trimEnd(trimStart(s))

\* s.split(/\s+/): acc are the finished parts, cur the part being read.
RECURSIVE splitFrom(_, _, _)
splitFrom(s, cur, acc) ==
  IF s = <<>> THEN Append(acc, cur)
  ELSE IF IsSpace(s[1])
       THEN splitFrom(trimStart(s), <<>>, Append(acc, cur))
       ELSE splitFrom(Tail(s), Append(cur, s[1]), acc)

split(s) == splitFrom(s, <<>>, <<>>)

LowerLetters ==
  <<"a", "b", "c", "d", "e", "f", "g", "h", "i", "j", "k", "l", "m",
    "n", "o", "p", "q", "r", "s", "t", "u", "v", "w", "x", "y", "z">>
UpperLetters ==
  <<"A", "B", "C", "D", "E", "F", "G", "H", "I", "J", "K", "L", "M",
    "N", "O", "P", "Q", "R", "S", "T", "U", "V", "W", "X", "Y", "Z">>

toUpperCase(c) ==
  IF \E i \in 1..Len(LowerLetters) : LowerLetters[i] = c
  THEN UpperLetters[CHOOSE i \in 1..Len(LowerLetters) : LowerLetters[i] = c]
  ELSE c

toLowerCase(c) ==
  IF \E i \in 1..Len(UpperLetters) : UpperLetters[i] = c
  THEN LowerLetters[CHOOSE i \in 1..Len(UpperLetters) : UpperLetters[i] = c]
  ELSE c

\* s.toLowerCase()
lowerCase(s) == [i \in 1..Len(s) |-> toLowerCase(s[i])]

\* hay.includes(needle)
includes(hay, needle) ==
  \E i \in 0..(Len(hay) - Len(needle)) :
    SubSeq(hay, i + 1, i + Len(needle)) = needle

Unknown == <<"U", "n", "k", "n", "o", "w", "n">>

\* crypto.createHash("sha256").update(data).digest("base64"): a value that
\* names its input; two inputs are taken never to collide
sha256(data) == [base64 |-> data]

\* Mutant: the secret is normalised like the client id.
maskSecret_normalizeBoth(secret, clientId) ==
  sha256(lowerCase(trim(secret)) \o lowerCase(trim(clientId)))

\* index.js:91-94
maskSecret(secret, clientId) ==
  LET normalizedId == lowerCase(trim(clientId))
  IN sha256(secret \o normalizedId)

\* index.js:672-673
displayName(raw) ==
  LET parts == split(trim(raw))
  IN IF Len(parts) >= 2
     THEN parts[1] \o <<" ", toUpperCase(parts[Len(parts)][1]), ".">>
     ELSE parts[1]

\* index.js:667-676, given the profile response
iracingNameOf(reply) ==
  IF reply.ok /\ Has(reply.body, "iracing_name") /\ reply.body.iracing_name # <<>>
  THEN displayName(reply.body.iracing_name)
  ELSE Unknown

customerIdOf(reply) ==
  IF reply.ok /\ Has(reply.body, "iracing_cust_id")
  THEN reply.body.iracing_cust_id
  ELSE "null"

\* ----------------------------------------------------------------- store
\* JSON.parse(fs.readFileSync(LINKED_FILE)), or [] when there is no file.
loadLinkedDrivers(f) == f

\* fs.writeFileSync(LINKED_FILE, JSON.stringify(drivers)): the whole array.
saveLinkedDrivers(drivers) == drivers

\* ------------------------------------------------------------------ JSON
\* The text of linked-drivers.json as its sequence of JSON tokens (white
\* space left out): punctuation, strings, numbers and null, each with its
\* characters.
Tok(t, v) == [t |-> t, v |-> v]
P(c) == Tok("punct", <<c>>)

Digit == <<"0", "1", "2", "3", "4", "5", "6", "7", "8", "9">>

\* Mutant: the sign of a number is not written.
RECURSIVE digits_unsigned(_)
digits_unsigned(n) ==
  IF n < 0 THEN digits_unsigned(0 - n)
  ELSE IF n < 10 THEN <<Digit[n + 1]>>
  ELSE digits_unsigned(n \div 10) \o <<Digit[(n % 10) + 1]>>

\* JSON.stringify of an integer: its decimal digits, "-" first when negative
RECURSIVE digits(_)
digits(n) ==
  IF n < 0 THEN <<"-">> \o digits(0 - n)
  ELSE IF n < 10 THEN <<Digit[n + 1]>>
  ELSE digits(n \div 10) \o <<Digit[(n % 10) + 1]>>

\* JSON.parse of a number token
RECURSIVE numberOf(_)
numberOf(ds) ==
  IF ds[1] = "-" THEN 0 - numberOf(Tail(ds))
  ELSE LET d == (CHOOSE i \in 1..10 : Digit[i] = ds[Len(ds)]) - 1
       IN IF Len(ds) = 1 THEN d
          ELSE 10 * numberOf(SubSeq(ds, 1, Len(ds) - 1)) + d

\* JSON.stringify of the characters of a string: a quotation mark and a
\* backslash are written behind a backslash
RECURSIVE escape(_)
escape(chars) ==
  IF chars = <<>> THEN <<>>
  ELSE (IF chars[1] \in {"\"", "\\"} THEN <<"\\", chars[1]>>
        ELSE <<chars[1]>>) \o escape(Tail(chars))

\* JSON.parse of the characters of a string token
RECURSIVE unescape(_)
unescape(chars) ==
  IF chars = <<>> THEN <<>>
  ELSE IF chars[1] = "\\" THEN <<chars[2]>> \o unescape(SubSeq(chars, 3, Len(chars)))
  ELSE <<chars[1]>> \o unescape(Tail(chars))

\* index.js:680-689: the properties of a record in the order in which they
\* are created
KeyOrder ==
  <<"discordId", "iracingName", "customerId", "accessToken", "refreshToken",
    "expiresAt", "lastIRating", "lastChange", "lastRank">>

\* The token of the value v of property k.  The model holds a name as its
\* characters, an id or a token as one string, customerId as a string
\* ("null" for null) and the other properties as integers.
valueToken(k, v) ==
  IF k = "iracingName" THEN Tok("str", escape(v))
  ELSE IF k \in {"discordId", "accessToken", "refreshToken"}
       THEN Tok("str", <<v>>)
  ELSE IF k = "customerId"
       THEN (IF v = "null" THEN Tok("null", <<>>) ELSE Tok("num", <<v>>))
  ELSE Tok("num", digits(v))

\* The value of property k read back from its token
tokenValue(k, tok) ==
  IF k = "iracingName" THEN unescape(tok.v)
  ELSE IF k \in {"discordId", "accessToken", "refreshToken"} THEN tok.v[1]
  ELSE IF k = "customerId"
       THEN (IF tok.t = "null" THEN "null" ELSE tok.v[1])
  ELSE numberOf(tok.v)

\* The members of object d from the n-th property on; a property that is
\* not set (undefined) is left out
RECURSIVE membersOf(_, _, _)
membersOf(d, n, first) ==
  IF n > Len(KeyOrder) THEN <<>>
  ELSE LET k == KeyOrder[n]
       IN IF Has(d, k)
          THEN (IF first THEN <<>> ELSE <<P(",")>>)
                 \o <<Tok("str", <<k>>), P(":"), valueToken(k, d[k])>>
                 \o membersOf(d, n + 1, FALSE)
          ELSE membersOf(d, n + 1, first)

\* The elements of the array from the n-th on
RECURSIVE elementsOf(_, _)
elementsOf(drivers, n) ==
  IF n > Len(drivers) THEN <<>>
  ELSE (IF n = 1 THEN <<>> ELSE <<P(",")>>)
         \o <<P("{")>> \o membersOf(drivers[n], 1, TRUE) \o <<P("}")>>
         \o elementsOf(drivers, n + 1)

\* index.js:67: JSON.stringify(drivers, null, 2)
stringify(drivers) == <<P("[")>> \o elementsOf(drivers, 1) \o <<P("]")>>

\* The object whose members start at tokens[i], and the place behind its
\* closing brace; a name read twice keeps its last value
RECURSIVE parseMembers(_, _, _)
parseMembers(tokens, i, obj) ==
  IF tokens[i] = P("}") THEN <<obj, i + 1>>
  ELSE IF tokens[i] = P(",") THEN parseMembers(tokens, i + 1, obj)
  ELSE LET k == tokens[i].v[1]
       IN parseMembers(tokens, i + 3,
                       (k :> tokenValue(k, tokens[i + 2])) @@ obj)

\* The objects of the array from tokens[i] on
RECURSIVE parseElements(_, _, _)
parseElements(tokens, i, acc) ==
  IF tokens[i] = P("]") THEN acc
  ELSE IF tokens[i] = P(",") THEN parseElements(tokens, i + 1, acc)
  ELSE LET r == parseMembers(tokens, i + 1, EmptyObj)
       IN parseElements(tokens, r[2], Append(acc, r[1]))

\* index.js:53-62: [] when there is no file, JSON.parse of its text otherwise
parse(tokens) ==
  IF tokens = <<>> THEN <<>> ELSE parseElements(tokens, 2, <<>>)

\* drivers.filter(d => d.discordId !== id)
RECURSIVE withoutId(_, _)
withoutId_keepAll(drivers, id) == drivers

withoutId(drivers, id) ==
  IF drivers = <<>> THEN <<>>
  ELSE IF drivers[1].discordId # id
       THEN <<drivers[1]>> \o withoutId(Tail(drivers), id)
       ELSE withoutId(Tail(drivers), id)

\* drivers.findIndex(d => d.discordId === id), 1-based; 0 for -1
findIndex(drivers, id) ==
  IF \E i \in 1..Len(drivers) : drivers[i].discordId = id
  THEN CHOOSE i \in 1..Len(drivers) :
         /\ drivers[i].discordId = id
         /\ \A j \in 1..(i - 1) : drivers[j].discordId # id
  ELSE 0

\* { k: o[from] } when o[from] is defined, {} otherwise
Opt(k, o, from) == IF Has(o, from) THEN k :> o[from] ELSE EmptyObj

\* Mutant: the record is built anew, without the fields of the old one.
upsertDriver_noHistory(drivers, discordId, iracingName, customerId, tokenData, t) ==
  Append(withoutId(drivers, discordId),
         [discordId |-> discordId, iracingName |-> iracingName,
          customerId |-> customerId,
          accessToken |-> tokenData.access_token,
          expiresAt |-> t + tokenData.expires_in * 1000]
         @@ Opt("refreshToken", tokenData, "refresh_token"))

\* Mutant: the new record is saved alone.
upsertDriver_alone(drivers, discordId, iracingName, customerId, tokenData, t) ==
  << [discordId |-> discordId, iracingName |-> iracingName,
      customerId |-> customerId,
      accessToken |-> tokenData.access_token,
      expiresAt |-> t + tokenData.expires_in * 1000]
     @@ Opt("refreshToken", tokenData, "refresh_token") >>

\* index.js:678-689: the array the callback saves
upsertDriver(drivers, discordId, iracingName, customerId, tokenData, t) ==
  LET idx == findIndex(drivers, discordId)
      existing == IF idx = 0 THEN EmptyObj ELSE drivers[idx]
      record ==
        [discordId |-> discordId, iracingName |-> iracingName,
         customerId |-> customerId,
         accessToken |-> tokenData.access_token,
         expiresAt |-> t + tokenData.expires_in * 1000]
        @@ Opt("refreshToken", tokenData, "refresh_token")
        @@ Opt("lastIRating", existing, "lastIRating")
        @@ Opt("lastChange", existing, "lastChange")
        @@ Opt("lastRank", existing, "lastRank")
  IN Append(withoutId(drivers, discordId), record)

\* o[k] = src[from], where an undefined value leaves no property behind
assignFrom(o, k, src, from) ==
  IF Has(src, from) THEN (k :> src[from]) @@ o
  ELSE [x \in DOMAIN o \ {k} |-> o[x]]

\* ---------------------------------------------------------- token refresh
\* index.js:97: the stored access token is still good
isFresh_never(user, t) == FALSE

isFresh(user, t) == t < user.expiresAt - REFRESH_BUFFER

\* Mutant: expires_in is taken as milliseconds.
applyRefresh_noScale(user, data, t) ==
  [accessToken |-> data.access_token, expiresAt |-> t + data.expires_in]
  @@ Opt("refreshToken", data, "refresh_token")
  @@ [x \in DOMAIN user \ {"refreshToken"} |-> user[x]]

\* Mutant: the refresh token is the response's, even when it has none.
applyRefresh_forgetOld(user, data, t) ==
  [accessToken |-> data.access_token,
   refreshToken |-> IF Has(data, "refresh_token") THEN data.refresh_token
                    ELSE "undefined",
   expiresAt |-> t + data.expires_in * 1000]
  @@ [x \in DOMAIN user \ {"refreshToken"} |-> user[x]]

\* index.js:114-116: the caller's record after a successful refresh
applyRefresh(user, data, t) ==
  LET refreshToken ==
        IF Has(data, "refresh_token") THEN Opt("refreshToken", data, "refresh_token")
        ELSE Opt("refreshToken", user, "refreshToken")
  IN [accessToken |-> data.access_token,
      expiresAt |-> t + data.expires_in * 1000]
     @@ refreshToken
     @@ [x \in DOMAIN user \ {"refreshToken"} |-> user[x]]

\* Mutant: the refreshed record is not written back.
persistRefresh_skip(f, user) == f

\* Mutant: the caller's record replaces the stored one, or is added.
persistRefresh_upsert(f, user) ==
  saveLinkedDrivers(
    Append(withoutId(loadLinkedDrivers(f), user.discordId), user))

\* index.js:118-125: the file after the refreshed record is written back
persistRefresh(f, user) ==
  LET drivers == loadLinkedDrivers(f)
      idx == findIndex(drivers, user.discordId)
  IN IF idx # 0
     THEN saveLinkedDrivers(
            [drivers EXCEPT ![idx] =
               assignFrom(
                 [accessToken |-> user.accessToken,
                  expiresAt |-> user.expiresAt] @@ @,
                 "refreshToken", user, "refreshToken")])
     ELSE f

\* ------------------------------------------------------------ leaderboard
\* index.js:143-145: the current rating in the chart payload, if any
hasRating(reply) ==
  /\ ~reply.threw /\ reply.ok
  /\ Has(reply.body, "data") /\ Len(reply.body.data) > 0

ratingOf(reply) == reply.body.data[Len(reply.body.data)].value

\* Mutant: the change is taken against the new rating itself.
recordRating_noChange(driver, ir) ==
  [lastIRating |-> ir, lastChange |-> 0] @@ driver

\* index.js:847-849
recordRating(driver, ir) ==
  LET old == IF Has(driver, "lastIRating") THEN driver.lastIRating ELSE ir
  IN [lastIRating |-> ir, lastChange |-> ir - old] @@ driver

\* d.lastIRating ?? 0
sortKey(d) == IF Has(d, "lastIRating") THEN d.lastIRating ELSE 0

\* Mutant: d is put before the elements that compare equal to it.
insertStable_beforeEqual(sorted, d) ==
  LET before == {j \in 1..Len(sorted) : sortKey(sorted[j]) > sortKey(d)}
      n == IF before = {} THEN 0
           ELSE CHOOSE j \in before : \A k \in before : k <= j
  IN SubSeq(sorted, 1, n) \o <<d>> \o SubSeq(sorted, n + 1, Len(sorted))

\* d put behind every element that does not compare after it
insertStable(sorted, d) ==
  LET before == {j \in 1..Len(sorted) : sortKey(sorted[j]) >= sortKey(d)}
      n == IF before = {} THEN 0
           ELSE CHOOSE j \in before : \A k \in before : k <= j
  IN SubSeq(sorted, 1, n) \o <<d>> \o SubSeq(sorted, n + 1, Len(sorted))

\* index.js:854: drivers.sort((a, b) => (b.lastIRating ?? 0) - (a.lastIRating ?? 0))
RECURSIVE sortDrivers(_)
sortDrivers(drivers) ==
  IF drivers = <<>> THEN <<>>
  ELSE insertStable(sortDrivers(SubSeq(drivers, 1, Len(drivers) - 1)),
                    drivers[Len(drivers)])

\* index.js:855: drivers.forEach((d, i) => d.lastRank = i + 1)
rankDrivers(drivers) ==
  [i \in 1..Len(drivers) |-> ("lastRank" :> i) @@ drivers[i]]

\* part_004:371-374: what the announcement says: the name, the spots
\* gained, the new rank and the rating (<<>> stands for '??')
gained(driver, spots, newRank) ==
  [name |-> IF driver.iracingName = <<>> THEN Unknown
            ELSE driver.iracingName,
   spots |-> spots,
   rank |-> newRank,
   ir |-> IF Has(driver, "lastIRating") THEN <<driver.lastIRating>>
          ELSE <<>>]

\* Mutant: any move is announced, a loss as well as a gain.
rankEvent_anyMove(driver, newRank) ==
  IF Has(driver, "lastRank") /\ newRank # driver.lastRank
  THEN <<gained(driver, driver.lastRank - newRank, newRank)>>
  ELSE <<>>

\* part_004:364-375, part_003:292-303: oldRank = driver.lastRank ?? Infinity;
\* if (newRank < oldRank && oldRank !== Infinity) announcements.push(...)
rankEvent(driver, newRank) ==
  IF Has(driver, "lastRank") /\ newRank < driver.lastRank
  THEN <<gained(driver, driver.lastRank - newRank, newRank)>>
  ELSE <<>>

\* part_004:363-378: the announcements of the first n records of the
\* sorted list, in list order
RECURSIVE announcementsOf(_, _)
announcementsOf(sorted, n) ==
  IF n = 0 THEN <<>>
  ELSE announcementsOf(sorted, n - 1) \o rankEvent(sorted[n], n)

\* ------------------------------------------------------------------ PKCE
\* req.query.state || "unknown"
stateOf(q) == IF q = "" THEN "unknown" ELSE q

\* Mutant: no session ever counts as expired.
isExpired_never(entry, t) == FALSE

\* index.js:632 and 648: the session is older than ten minutes
isExpired(entry, t) == t - entry.createdAt > TEN_MINUTES

\* Mutant: a login keeps the pending session of its state, if there is one.
putEntry_keepFirst(store, key, entry) == store @@ (key :> entry)

\* Mutant: a login for a state with a pending session keeps its createdAt.
putEntry_keepCreatedAt(store, key, entry) ==
  (key :> [entry EXCEPT !.createdAt = IF Has(store, key)
                                      THEN store[key].createdAt ELSE @])
    @@ store

\* index.js:630: pkceStore[state] = entry
putEntry(store, key, entry) == (key :> entry) @@ store

\* Mutant: a login evicts nothing.
sweep_none(store, t) == store

\* index.js:631-633
sweep(store, t) ==
  [k \in {key \in DOMAIN store : ~isExpired(store[key], t)} |-> store[k]]

\* Mutant: only the HTTP status of the token response is looked at.
exchangeFailed_statusOnly(reply) == ~reply.ok

\* index.js:662
exchangeFailed(reply) == ~reply.ok \/ Has(reply.body, "error")

\* Mutant: the entry is not deleted.
deleteKey_keep(store, key) == store

\* index.js:645: delete pkceStore[key]
deleteKey(store, key) == [k \in DOMAIN store \ {key} |-> store[k]]

NoReply == [threw |-> FALSE, ok |-> FALSE, body |-> EmptyObj]

\* What the history keeps of a step of the linking flow: the handler, the
\* state parameter, the verifier involved (0 for none), the provider's
\* response the step consumed (NoReply for none), the HTTP status of the
\* reply the step sent (0 for none yet) and its text.
Event(op, id, verifier, got, status, why) ==
  [op |-> op, id |-> id, verifier |-> verifier, got |-> got,
   status |-> status, why |-> why]

Reply(op, id, verifier, status, why) ==
  Event(op, id, verifier, NoReply, status, why)

\* A history the run keeps takes its new value, any other stays as it is.
Keep(history, old, new) == IF history \in histories THEN new ELSE old

\* The latest reply, when the run keeps the replies of that kind
Note(kind, reply) == Keep(kind, last, reply)

\* A store left by an earlier run of the bot: d1 linked, ranked by one
\* weekly pass.
SavedStore ==
  << [discordId |-> "d1",
      iracingName |-> <<"J", "e", "s", "s", "e", " ", "D", ".">>,
      customerId |-> "101", accessToken |-> "a1", refreshToken |-> "r1",
      expiresAt |-> 660000, lastIRating |-> 1500, lastChange |-> 0,
      lastRank |-> 1] >>

\* No error was thrown
NotThrown == EmptyObj

\* index.js:857-860: what the history keeps of a weekly save: the array
\* written, and the invocations suspended at that time
Saved(drivers, others) ==
  [drivers |-> drivers, during |-> {q.run : q \in others}]

\* No function is called on its own
NoCall == [pc |-> "none", arg |-> <<>>, text |-> <<>>, result |-> <<>>]

\* part_004: the weekly job is not running
CronIdle ==
  [pc |-> "idle", loaded |-> <<>>, drivers |-> <<>>, announcements |-> <<>>]

\* What every start of the bot sets up, whatever the data directory holds
Started ==
  /\ now = 0
  /\ pkceStore = EmptyObj
  /\ issued = 0
  /\ callbacks = {}
  /\ runs = 0
  /\ passes = {}
  /\ gvat = [run |-> 0, i |-> 0, phase |-> "", at |-> 0, user |-> EmptyObj,
             data |-> EmptyObj, thrown |-> NotThrown, token |-> ""]
  /\ lastLogin = EmptyObj
  /\ exchanged = {}
  /\ statsCmds = {}
  /\ statsRuns = 0
  /\ unlinked = {}

\* A store two weekly passes old: d2 and d1 ranked, d2 with a token that
\* outlives the clock of the model.
RankedStore ==
  << [discordId |-> "d2",
      iracingName |-> <<"N", "o", "r", "a", " ", "K", ".">>,
      customerId |-> "102", accessToken |-> "b1", refreshToken |-> "s1",
      expiresAt |-> 1320000, lastIRating |-> 2000, lastChange |-> 0,
      lastRank |-> 1],
     [discordId |-> "d1",
      iracingName |-> <<"J", "e", "s", "s", "e", " ", "D", ".">>,
      customerId |-> "101", accessToken |-> "a1", refreshToken |-> "r1",
      expiresAt |-> 660000, lastIRating |-> 1500, lastChange |-> -100,
      lastRank |-> 2] >>

\* The same store after a link without state and without a profile name:
\* the new record has no rating and no rank yet.
GrownStore ==
  Append(RankedStore,
         [discordId |-> "unknown", iracingName |-> Unknown,
          customerId |-> "null", accessToken |-> "a2", refreshToken |-> "r2",
          expiresAt |-> 660000])

\* The bot starts on an empty data directory.
Init ==
  /\ Started
  /\ file = <<>>
  /\ last = Reply("off", "", 0, 0, "")
  /\ histories = {}
  /\ cron = CronIdle
  /\ call = NoCall
  /\ baseline = Saved(file, {})

\* The bot starts on an empty data directory or on a store it saved before
\* and keeps the steps of the linking flow.
InitLink ==
  /\ Started
  /\ file \in {<<>>, SavedStore}
  /\ last = Reply("init", "", 0, 0, "")
  /\ histories = {"link"}
  /\ cron = CronIdle
  /\ call = NoCall
  /\ baseline = Saved(file, {})

\* The bot starts on an empty data directory with an empty PKCE store.
InitSession ==
  /\ Started
  /\ file = <<>>
  /\ last = Reply("init", "", 0, 0, "")
  /\ histories = {"link"}
  /\ cron = CronIdle
  /\ call = NoCall
  /\ baseline = Saved(file, {})

\* The stores of up to three linked drivers: the records of GrownStore, any
\* of them, in any order
LinkedStores ==
  UNION { { [j \in 1..n |-> GrownStore[f[j]]] :
              f \in {g \in [1..n -> 1..3] :
                       \A a, b \in 1..n : a # b => g[a] # g[b]} } :
          n \in 0..3 }

\* The bot starts on a store of linked drivers and keeps the unlink commands.
InitUnlink ==
  /\ Started
  /\ file \in LinkedStores
  /\ last = Reply("init", "", 0, 0, "")
  /\ histories = {"unlink"}
  /\ cron = CronIdle
  /\ call = NoCall
  /\ baseline = Saved(file, {})

\* Handlers suspended on a request
inFlight ==
  Cardinality(callbacks) + Cardinality(passes) + Cardinality(statsCmds)

\* The clock moves in steps of ten minutes.
TickSteps == {TEN_MINUTES}

Tick(d) ==
  /\ now + d <= MaxLong * TEN_MINUTES
  /\ now' = now + d
  /\ UNCHANGED <<pkceStore, issued, file, callbacks, runs, passes, gvat,
                 lastLogin, exchanged, last,
                 statsCmds, statsRuns, cron, histories, unlinked, call, baseline>>

\* index.js:624-637
Login(q) ==
  LET state == stateOf(q)
      codeVerifier == issued + 1
      entry == [verifier |-> codeVerifier, createdAt |-> now]
  IN /\ issued < MaxLogins
     /\ issued' = codeVerifier
     /\ pkceStore' = sweep(putEntry(pkceStore, state, entry), now)
     /\ lastLogin' = Keep("link", lastLogin,
                         (state :> codeVerifier) @@ lastLogin)
     /\ last' = Note("link", Reply("login", state, codeVerifier, 302,
                                   "redirect"))
     /\ UNCHANGED <<now, file, callbacks, runs, passes, gvat, exchanged,
                 statsCmds, statsRuns, cron, histories, unlinked, call, baseline>>

\* Mutant: the session is looked up and deleted before the code is checked.
CallbackStart_lookupFirst(q, code) ==
  LET discordId == stateOf(q)
  IN /\ pkceStore' = deleteKey(pkceStore, discordId)
     /\ UNCHANGED <<now, issued, file, runs, passes, gvat, lastLogin,
                 statsCmds, statsRuns, cron, histories, unlinked, call, baseline>>
     /\ IF code = ""
        THEN /\ last' = Note("link", Reply("callback", discordId, 0, 400,
                                        "missing code"))
             /\ UNCHANGED <<callbacks, exchanged>>
        ELSE IF ~Has(pkceStore, discordId)
        THEN /\ last' = Note("link", Reply("callback", discordId, 0,
                                             400, "no session"))
             /\ UNCHANGED <<callbacks, exchanged>>
        ELSE IF isExpired(pkceStore[discordId], now)
        THEN /\ last' = Note("link", Reply("callback", discordId,
                                   pkceStore[discordId].verifier, 400,
                                   "expired"))
             /\ UNCHANGED <<callbacks, exchanged>>
        ELSE /\ inFlight < MaxInFlight
             /\ callbacks' = callbacks \cup
                  {[discordId |-> discordId, pc |-> "token",
                    code_verifier |-> pkceStore[discordId].verifier,
                    tokenData |-> EmptyObj]}
             /\ exchanged' = Keep("link", exchanged, exchanged \cup
                                    {pkceStore[discordId].verifier})
             /\ last' = Note("link", Reply("callback", discordId,
                                   pkceStore[discordId].verifier, 0,
                                   "exchange"))

\* index.js:639-660: up to the token-exchange request
CallbackStart(q, code) ==
  LET discordId == stateOf(q)
  IN IF code = ""
     THEN /\ last' = Note("link", Reply("callback", discordId, 0, 400,
                                        "missing code"))
          /\ UNCHANGED <<now, pkceStore, issued, file, callbacks, runs,
                         passes, gvat, lastLogin, exchanged,
                 statsCmds, statsRuns, cron, histories, unlinked, call, baseline>>
     ELSE /\ pkceStore' = deleteKey(pkceStore, discordId)
          /\ UNCHANGED <<now, issued, file, runs, passes, gvat, lastLogin,
                 statsCmds, statsRuns, cron, histories, unlinked, call, baseline>>
          /\ IF ~Has(pkceStore, discordId)
             THEN /\ last' = Note("link", Reply("callback", discordId, 0,
                                             400, "no session"))
                  /\ UNCHANGED <<callbacks, exchanged>>
             ELSE IF isExpired(pkceStore[discordId], now)
             THEN /\ last' = Note("link", Reply("callback", discordId,
                                     pkceStore[discordId].verifier, 400,
                                     "expired"))
                  /\ UNCHANGED <<callbacks, exchanged>>
             ELSE /\ inFlight < MaxInFlight
                  /\ callbacks' = callbacks \cup
                       {[discordId |-> discordId, pc |-> "token",
                         code_verifier |-> pkceStore[discordId].verifier,
                         tokenData |-> EmptyObj]}
                  /\ exchanged' = Keep("link", exchanged, exchanged \cup
                                    {pkceStore[discordId].verifier})
                  /\ last' = Note("link", Reply("callback", discordId,
                                          pkceStore[discordId].verifier, 0,
                                          "exchange"))

\* index.js:661-666: the token response arrives
CallbackToken(c, reply) ==
  /\ c \in callbacks /\ c.pc = "token"
  /\ UNCHANGED <<now, pkceStore, issued, file, runs, passes, gvat, lastLogin,
                 exchanged,
                 statsCmds, statsRuns, cron, histories, unlinked, call, baseline>>
  /\ IF reply.threw
     THEN /\ callbacks' = callbacks \ {c}
          /\ last' = Note("link", Event("token", c.discordId, c.code_verifier,
                                reply,
                                500, "Linking failed."))
     ELSE IF exchangeFailed(reply)
     THEN /\ callbacks' = callbacks \ {c}
          /\ last' = Note("link", Event("token", c.discordId, c.code_verifier,
                                reply,
                                400,
                                IF Has(reply.body, "error")
                                THEN reply.body.error ELSE "Unknown"))
     ELSE /\ callbacks' = (callbacks \ {c}) \cup
               {[c EXCEPT !.pc = "profile", !.tokenData = reply.body]}
          /\ last' = Note("link", Event("token", c.discordId, c.code_verifier,
                                reply,
                                0, "profile"))

\* index.js:667-695: the profile response arrives
CallbackProfile(c, reply) ==
  /\ c \in callbacks /\ c.pc = "profile"
  /\ callbacks' = callbacks \ {c}
  /\ UNCHANGED <<now, pkceStore, issued, runs, passes, gvat, lastLogin,
                 exchanged, statsCmds, statsRuns, cron, histories, call, baseline>>
  /\ unlinked' = IF reply.threw THEN unlinked
               ELSE Keep("unlinked", unlinked, unlinked \ {c.discordId})
  /\ IF reply.threw
     THEN /\ last' = Note("link", Event("profile", c.discordId, c.code_verifier,
                                reply, 500, "Linking failed."))
          /\ UNCHANGED file
     ELSE /\ file' = saveLinkedDrivers(
               upsertDriver(loadLinkedDrivers(file), c.discordId,
                            iracingNameOf(reply), customerIdOf(reply),
                            c.tokenData, now))
          /\ last' = Note("link", Event("profile", c.discordId, c.code_verifier,
                                reply, 200, "Linked"))

\* The discordIds of a list of drivers
idsOf(drivers) == {drivers[i].discordId : i \in 1..Len(drivers)}

\* index.js:723-732 (/unlinkme) and 741-748 (/unlink): remove by id
unlinkById(f, id) ==
  LET drivers == loadLinkedDrivers(f)
      kept == withoutId(drivers, id)
  IN IF Len(kept) < Len(drivers) THEN saveLinkedDrivers(kept) ELSE f

\* What the history keeps of an unlink command: the id or the name asked
\* for, the ids it removed from the store, and its reply.
Command(op, id, name, removed, why) ==
  [op |-> op, id |-> id, verifier |-> 0, got |-> NoReply, status |-> 0,
   why |-> why, name |-> name, removed |-> removed]

UnlinkMe(user) ==
  /\ file' = unlinkById(file, user)
  /\ unlinked' = Keep("unlinked", unlinked,
                    unlinked \cup (idsOf(file) \ idsOf(file')))
  /\ last' = Note("unlink", Command("unlinkme", user, <<>>, idsOf(file) \ idsOf(file'),
                          IF file' # file THEN "unlinked" ELSE "not linked"))
  /\ UNCHANGED <<now, pkceStore, issued, callbacks, runs, passes, gvat,
                 lastLogin, exchanged, statsCmds, statsRuns, cron, histories, call, baseline>>

\* index.js:734-749; target = "" when no user option is given
Unlink(admin, target) ==
  /\ file' = IF ~admin \/ target = "" THEN file ELSE unlinkById(file, target)
  /\ unlinked' = Keep("unlinked", unlinked,
                    unlinked \cup (idsOf(file) \ idsOf(file')))
  /\ last' = Note("unlink", Command("unlink", target, <<>>, idsOf(file) \ idsOf(file'),
                          IF ~admin THEN "Administrators only."
                          ELSE IF target = "" THEN "Please select a user."
                          ELSE IF file' # file THEN "unlinked"
                          ELSE "not linked"))
  /\ UNCHANGED <<now, pkceStore, issued, callbacks, runs, passes, gvat,
                 lastLogin, exchanged, statsCmds, statsRuns, cron, histories, call, baseline>>

\* Mutant: only a record whose whole name is the query matches.
nameMatches_exact(drivers, inputName) ==
  {i \in 1..Len(drivers) : lowerCase(drivers[i].iracingName) = inputName}

\* index.js:758
nameMatches(drivers, inputName) ==
  {i \in 1..Len(drivers) :
     includes(lowerCase(drivers[i].iracingName), inputName)}

\* index.js:751-779
UnlinkName(admin, name) ==
  LET inputName == lowerCase(trim(name))
      drivers == loadLinkedDrivers(file)
      matches == nameMatches(drivers, inputName)
  IN /\ file' =
          IF ~admin \/ Cardinality(matches) = 0 \/ Cardinality(matches) > 1
          THEN file
          ELSE LET removed == drivers[CHOOSE i \in matches : TRUE]
               IN saveLinkedDrivers(withoutId(drivers, removed.discordId))
     /\ unlinked' = Keep("unlinked", unlinked,
                    unlinked \cup (idsOf(file) \ idsOf(file')))
     /\ last' = Note("unlink", Command("unlinkname", "", name,
                             idsOf(file) \ idsOf(file'),
                             IF ~admin THEN "Administrators only."
                             ELSE IF Cardinality(matches) = 0 THEN "No driver found"
                             ELSE IF Cardinality(matches) > 1 THEN "Multiple matches"
                             ELSE "unlinked"))
     /\ UNCHANGED <<now, pkceStore, issued, callbacks, runs, passes, gvat,
                    lastLogin, exchanged, statsCmds, statsRuns, cron, histories, call, baseline>>

\* Mutant: the rating request is sent with the record's token at once.
beginLookup_noTokenCall(run, saveBaseline, drivers, i, t, ir) ==
  [run |-> run, saveBaseline |-> saveBaseline, drivers |-> drivers, i |-> i,
   pc |-> "root", token |-> drivers[i].accessToken, ir |-> ir]

\* index.js:845 -> 132 -> 97-110: getCurrentIRating(drivers[i]) up to its
\* first fetch: the rating request when the token is fresh, the refresh
\* request when it is not.
\* ir is what the lookup before this one returned (index.js:845), <<>>
\* for null.
beginLookup(run, saveBaseline, drivers, i, t, ir) ==
  [run |-> run, saveBaseline |-> saveBaseline, drivers |-> drivers, i |-> i,
   pc |-> IF isFresh(drivers[i], t) THEN "root" ELSE "refresh",
   token |-> IF isFresh(drivers[i], t) THEN drivers[i].accessToken ELSE "",
   ir |-> ir]

\* index.js:111 and the rejection of the fetch at 101
RefreshFailed == "Token refresh failed"
FetchFailed == "fetch failed"

\* Mutant: every failure of the refresh reads as a failed request.
thrownBy_fetchFailed(reply) ==
  [error |-> FetchFailed, threw |-> reply.threw, ok |-> reply.ok]

\* index.js:101-111: the error a refresh response makes the call throw,
\* with what the response was
thrownBy(reply) ==
  [error |-> IF reply.threw THEN FetchFailed ELSE RefreshFailed,
   threw |-> reply.threw, ok |-> reply.ok]

\* What the history keeps of a getValidAccessToken call: who called (the
\* pass run and its driver i, i = 0 for a /stats command), how far the call
\* got, when, the record it was given, the refresh response, the token it
\* returned ("" when it has not returned one), and thrown: the error of the
\* call it records (phase "failed") or of the call the same caller made just
\* before, in the same step.
tokenCall(run, i, phase, t, user, data, thrown, token) ==
  Keep("gvat", gvat,
       [run |-> run, i |-> i, phase |-> phase, at |-> t, user |-> user,
        data |-> data, thrown |-> thrown, token |-> token])

\* index.js:843-892: the loop goes on after drivers[p.i] was looked up, to
\* the next driver's first fetch or, past the last driver, to the ranking,
\* the save and the reply.
\* index.js:854-892: what the history keeps of a finished pass: the list it
\* sent to the channel, and what its last lookup returned.
Board(run, saveBaseline, drivers, ir) ==
  [op |-> "leaderboard", id |-> "", verifier |-> run, got |-> NoReply,
   status |-> 0, why |-> "sent", saveBaseline |-> saveBaseline,
   drivers |-> drivers, ir |-> ir]

\* index.js:835 and 900: the texts of the other two replies, the second
\* without its emoji
NoDriversLinked == "No drivers linked yet."
LeaderboardFailed == "Failed to load leaderboard. Please try again."

\* index.js:836-838, 894-901: what the history keeps of a reply that is not
\* the list
BoardReply(run, saveBaseline, why) ==
  [Board(run, saveBaseline, <<>>, <<>>) EXCEPT !.why = why]

\* index.js:891-892: whether Discord takes the list (TRUE) or the call
\* rejects.  A run that does not keep the replies to commands has no use for
\* the difference and follows the first.
Deliveries == IF "reply" \in histories THEN BOOLEAN ELSE {TRUE}

\* index.js:891-901: the reply that ends a pass: the list, or, when sending
\* it threw, the failure message for a command and nothing for the job
finalReply(p, ranked, ir, delivered) ==
  IF delivered THEN Board(p.run, p.saveBaseline, ranked, ir)
  ELSE IF p.saveBaseline THEN last
  ELSE BoardReply(p.run, FALSE, LeaderboardFailed)

\* Mutant: a lookup that returns null ends the pass.
continuePass_abort(p, drivers, ir, thrown) ==
  /\ passes' = IF ir = <<>> \/ p.i = Len(drivers) THEN passes \ {p}
               ELSE (passes \ {p}) \cup
                      {beginLookup(p.run, p.saveBaseline, drivers, p.i + 1,
                                   now, ir)}
  /\ UNCHANGED <<gvat, file, last, baseline>>

\* Mutant: a weekly pass saves only the records the store still holds.
continuePass_dropUnlinked(p, drivers, ir, thrown) ==
  IF p.i < Len(drivers)
  THEN LET q == beginLookup(p.run, p.saveBaseline, drivers, p.i + 1, now, ir)
       IN /\ passes' = (passes \ {p}) \cup {q}
          /\ gvat' = tokenCall(p.run, p.i + 1,
                                IF q.pc = "root" THEN "fast" ELSE "sent",
                                now, drivers[p.i + 1], EmptyObj, thrown,
                                q.token)
          /\ file' = file
          /\ last' = last
          /\ baseline' = baseline
  ELSE LET ranked == rankDrivers(sortDrivers(drivers))
           held == {d.discordId : d \in {file[j] : j \in 1..Len(file)}}
       IN /\ passes' = passes \ {p}
          /\ gvat' = IF thrown = NotThrown THEN gvat
                     ELSE tokenCall(p.run, p.i, "failed", now, p.drivers[p.i],
                                    EmptyObj, thrown, "")
          /\ file' = IF p.saveBaseline
                     THEN saveLinkedDrivers(
                            SelectSeq(ranked,
                                      LAMBDA d : d.discordId \in held))
                     ELSE file
          /\ last' = Note("board", Board(p.run, p.saveBaseline, ranked, ir))
          /\ baseline' = IF p.saveBaseline
                         THEN Keep("baseline", baseline,
                                   Saved(ranked, passes \ {p}))
                         ELSE baseline

\* Mutant: every pass saves its list, the /leaderboard command's as well.
continuePass_saveAlways(p, drivers, ir, thrown) ==
  IF p.i < Len(drivers)
  THEN LET q == beginLookup(p.run, p.saveBaseline, drivers, p.i + 1, now, ir)
       IN /\ passes' = (passes \ {p}) \cup {q}
          /\ gvat' = tokenCall(p.run, p.i + 1,
                                IF q.pc = "root" THEN "fast" ELSE "sent",
                                now, drivers[p.i + 1], EmptyObj, thrown,
                                q.token)
          /\ file' = file
          /\ last' = last
          /\ baseline' = baseline
  ELSE LET ranked == rankDrivers(sortDrivers(drivers))
       IN /\ passes' = passes \ {p}
          /\ gvat' = IF thrown = NotThrown THEN gvat
                     ELSE tokenCall(p.run, p.i, "failed", now, p.drivers[p.i],
                                    EmptyObj, thrown, "")
          /\ file' = saveLinkedDrivers(ranked)
          /\ last' = Note("board", Board(p.run, p.saveBaseline, ranked, ir))
          /\ baseline' = IF p.saveBaseline
                         THEN Keep("baseline", baseline,
                                   Saved(ranked, passes \ {p}))
                         ELSE baseline

\* ir is what the lookup of drivers[p.i] returned, thrown the error its
\* token call ended with (NotThrown when it did not throw).
continuePass(p, drivers, ir, thrown) ==
  IF p.i < Len(drivers)
  THEN LET q == beginLookup(p.run, p.saveBaseline, drivers, p.i + 1, now, ir)
       IN /\ passes' = (passes \ {p}) \cup {q}
          /\ gvat' = tokenCall(p.run, p.i + 1,
                                IF q.pc = "root" THEN "fast" ELSE "sent",
                                now, drivers[p.i + 1], EmptyObj, thrown,
                                q.token)
          /\ file' = file
          /\ last' = last
          /\ baseline' = baseline
  ELSE LET ranked == rankDrivers(sortDrivers(drivers))
       IN /\ passes' = passes \ {p}
          /\ gvat' = IF thrown = NotThrown THEN gvat
                     ELSE tokenCall(p.run, p.i, "failed", now, p.drivers[p.i],
                                    EmptyObj, thrown, "")
          /\ file' = IF p.saveBaseline THEN saveLinkedDrivers(ranked) ELSE file
          /\ \E delivered \in Deliveries :
               last' = Note("board", finalReply(p, ranked, ir, delivered))
          /\ baseline' = IF p.saveBaseline
                         THEN Keep("baseline", baseline,
                                   Saved(ranked, passes \ {p}))
                         ELSE baseline

\* The invocations a run follows: more where their sequence is looked at
RunLimit == IF "baseline" \in histories THEN MaxViews ELSE MaxRuns

\* Mutant: the lookups of all records are started at once.
LbStart_allAtOnce(saveBaseline) ==
  LET drivers == loadLinkedDrivers(file)
  IN /\ runs < RunLimit
     /\ runs' = runs + 1
     /\ passes' = passes \cup
          {beginLookup(runs + 1, saveBaseline, drivers, i, now, <<>>) :
             i \in 1..Len(drivers)}
     /\ UNCHANGED <<now, pkceStore, issued, file, callbacks, lastLogin,
                    exchanged, last, gvat, statsCmds, statsRuns, cron,
                    histories, unlinked, call, baseline>>

\* index.js:829-845: /leaderboard (saveBaseline = FALSE) or the weekly job
LbStart(saveBaseline) ==
  LET drivers == loadLinkedDrivers(file)
      q == beginLookup(runs + 1, saveBaseline, drivers, 1, now, <<>>)
  IN /\ runs < RunLimit
     /\ runs' = runs + 1
     /\ IF Len(drivers) = 0
        THEN UNCHANGED <<passes, gvat>>
        ELSE /\ inFlight < MaxInFlight
             /\ passes' = passes \cup {q}
             /\ gvat' = tokenCall(runs + 1, 1,
                                   IF q.pc = "root" THEN "fast" ELSE "sent",
                                   now, drivers[1], EmptyObj, NotThrown,
                                   q.token)
     /\ UNCHANGED <<now, pkceStore, issued, file, callbacks, lastLogin,
                    exchanged, last,
                 statsCmds, statsRuns, cron, histories, unlinked, call, baseline>>

\* Mutant: a command whose deferReply rejects is given up without a word.
LbCommand_silent(deferred) ==
  LET drivers == loadLinkedDrivers(file)
      q == beginLookup(runs + 1, FALSE, drivers, 1, now, <<>>)
  IN /\ runs < RunLimit
     /\ runs' = runs + 1
     /\ IF Len(drivers) = 0
        THEN /\ last' = Note("board",
                              BoardReply(runs + 1, FALSE, NoDriversLinked))
             /\ UNCHANGED <<passes, gvat>>
        ELSE IF ~deferred
        THEN UNCHANGED <<last, passes, gvat>>
        ELSE /\ inFlight < MaxInFlight
             /\ passes' = passes \cup {q}
             /\ gvat' = tokenCall(runs + 1, 1,
                                   IF q.pc = "root" THEN "fast" ELSE "sent",
                                   now, drivers[1], EmptyObj, NotThrown,
                                   q.token)
             /\ last' = last
     /\ UNCHANGED <<now, pkceStore, issued, file, callbacks, lastLogin,
                    exchanged, statsCmds, statsRuns, cron, histories,
                    unlinked, call, baseline>>

\* index.js:805, 829-845, 894-901: the /leaderboard command with its replies.
\* `deferred` tells whether deferReply went through.  On an empty store the
\* command replies at once; when deferReply rejects, the catch replies with
\* the failure message; otherwise the pass starts as in LbStart.
LbCommand(deferred) ==
  LET drivers == loadLinkedDrivers(file)
      q == beginLookup(runs + 1, FALSE, drivers, 1, now, <<>>)
  IN /\ runs < RunLimit
     /\ runs' = runs + 1
     /\ IF Len(drivers) = 0
        THEN /\ last' = Note("board",
                              BoardReply(runs + 1, FALSE, NoDriversLinked))
             /\ UNCHANGED <<passes, gvat>>
        ELSE IF ~deferred
        THEN /\ last' = Note("board",
                              BoardReply(runs + 1, FALSE, LeaderboardFailed))
             /\ UNCHANGED <<passes, gvat>>
        ELSE /\ inFlight < MaxInFlight
             /\ passes' = passes \cup {q}
             /\ gvat' = tokenCall(runs + 1, 1,
                                   IF q.pc = "root" THEN "fast" ELSE "sent",
                                   now, drivers[1], EmptyObj, NotThrown,
                                   q.token)
             /\ last' = last
     /\ UNCHANGED <<now, pkceStore, issued, file, callbacks, lastLogin,
                    exchanged, statsCmds, statsRuns, cron, histories,
                    unlinked, call, baseline>>

\* index.js:111-136: the refresh response arrives
LbRefresh(p, reply) ==
  /\ p \in passes /\ p.pc = "refresh"
  /\ UNCHANGED <<now, pkceStore, issued, callbacks, runs, lastLogin, exchanged,
                 statsCmds, statsRuns, cron, histories, unlinked, call>>
  /\ IF reply.threw \/ ~reply.ok
     THEN continuePass(p, p.drivers, <<>>, thrownBy(reply))
     ELSE LET user == applyRefresh(p.drivers[p.i], reply.body, now)
          IN /\ file' = persistRefresh(file, user)
             /\ passes' = (passes \ {p}) \cup
                  {[p EXCEPT !.drivers[p.i] = user, !.pc = "root",
                             !.token = user.accessToken]}
             /\ last' = last
             /\ baseline' = baseline
             /\ gvat' = tokenCall(p.run, p.i, "refreshed", now,
                                   p.drivers[p.i], reply.body, NotThrown,
                                   user.accessToken)

\* index.js:137-140: the chart_data root document arrives
LbRoot(p, reply) ==
  /\ p \in passes /\ p.pc = "root"
  /\ UNCHANGED <<now, pkceStore, issued, callbacks, runs, lastLogin, exchanged,
                 statsCmds, statsRuns, cron, histories, unlinked, call>>
  /\ IF reply.threw \/ ~reply.ok \/ ~Has(reply.body, "link")
     THEN continuePass(p, p.drivers, <<>>, NotThrown)
     ELSE /\ passes' = (passes \ {p}) \cup {[p EXCEPT !.pc = "chart"]}
          /\ UNCHANGED <<file, gvat, last, baseline>>

\* index.js:141-150: the chart payload arrives
LbChart(p, reply) ==
  /\ p \in passes /\ p.pc = "chart"
  /\ UNCHANGED <<now, pkceStore, issued, callbacks, runs, lastLogin, exchanged,
                 statsCmds, statsRuns, cron, histories, unlinked, call>>
  /\ IF hasRating(reply)
     THEN continuePass(p, [p.drivers EXCEPT
                             ![p.i] = recordRating(@, ratingOf(reply))],
                       <<ratingOf(reply)>>, NotThrown)
     ELSE continuePass(p, p.drivers, <<>>, NotThrown)

\* index.js:810-817: /stats by a user, up to the avatar request
StatsStart(user) ==
  LET drivers == loadLinkedDrivers(file)
      idx == findIndex(drivers, user)
  IN /\ IF idx = 0
        THEN UNCHANGED <<statsCmds, statsRuns>>
        ELSE /\ statsRuns < MaxStats
             /\ inFlight < MaxInFlight
             /\ statsRuns' = statsRuns + 1
             /\ statsCmds' = statsCmds \cup
                  {[run |-> statsRuns + 1, driver |-> drivers[idx],
                    pc |-> "avatar"]}
     /\ UNCHANGED <<now, pkceStore, issued, file, callbacks, runs, passes,
                    gvat, lastLogin, exchanged, last, cron, histories, unlinked, call, baseline>>

\* index.js:817-818 -> 213 -> 97-110: the avatar arrived (or not, 306-316);
\* fetchDriverStats asks for a token: with a fresh one it sends the four
\* data requests (216-221), whose answers make the card and touch nothing
\* else; with a stale one it sends the refresh request.
StatsAvatar(s) ==
  /\ s \in statsCmds /\ s.pc = "avatar"
  /\ statsCmds' = IF isFresh(s.driver, now) THEN statsCmds \ {s}
                  ELSE (statsCmds \ {s}) \cup {[s EXCEPT !.pc = "refresh"]}
  /\ gvat' = tokenCall(s.run, 0,
                        IF isFresh(s.driver, now) THEN "fast" ELSE "sent",
                        now, s.driver, EmptyObj, NotThrown,
                        IF isFresh(s.driver, now) THEN s.driver.accessToken
                        ELSE "")
  /\ UNCHANGED <<now, pkceStore, issued, file, callbacks, runs, passes,
                 lastLogin, exchanged, last, statsRuns, cron, histories, unlinked, call, baseline>>

\* index.js:111-127, 213-220, 822-825: the refresh response arrives
StatsRefresh(s, reply) ==
  /\ s \in statsCmds /\ s.pc = "refresh"
  /\ UNCHANGED <<now, pkceStore, issued, callbacks, runs, passes, lastLogin,
                 exchanged, last, statsRuns, cron, histories, unlinked, call, baseline>>
  /\ IF reply.threw \/ ~reply.ok
     THEN /\ statsCmds' = statsCmds \ {s}
          /\ gvat' = tokenCall(s.run, 0, "failed", now, s.driver, EmptyObj,
                                thrownBy(reply), "")
          /\ file' = file
     ELSE LET user == applyRefresh(s.driver, reply.body, now)
          IN /\ file' = persistRefresh(file, user)
             /\ statsCmds' = statsCmds \ {s}
             /\ gvat' = tokenCall(s.run, 0, "refreshed", now, s.driver,
                                   reply.body, NotThrown, user.accessToken)

Next ==
  \/ \E d \in TickSteps : Tick(d)
  \/ \E q \in StateParams : Login(q)
  \/ \E q \in StateParams, code \in CodeParams : CallbackStart(q, code)
  \/ \E c \in callbacks, reply \in ExchangeReplies : CallbackToken(c, reply)
  \/ \E c \in callbacks, reply \in ProfileReplies : CallbackProfile(c, reply)
  \/ \E user \in Users : UnlinkMe(user)
  \/ \E r \in UnlinkRequests : Unlink(r.admin, r.target)
  \/ \E r \in UnlinkNameRequests : UnlinkName(r.admin, r.name)
  \/ \E saveBaseline \in BOOLEAN : LbStart(saveBaseline)
  \/ \E p \in passes, reply \in RefreshReplies : LbRefresh(p, reply)
  \/ \E p \in passes, reply \in RootReplies : LbRoot(p, reply)
  \/ \E p \in passes, reply \in ChartReplies : LbChart(p, reply)
  \/ \E user \in Users : StatsStart(user)
  \/ \E s \in statsCmds : StatsAvatar(s)
  \/ \E s \in statsCmds, reply \in RefreshReplies : StatsRefresh(s, reply)

Spec == Init /\ [][Next]_vars

\* Everything that writes the store of linked drivers: the linking flow,
\* the unlink commands and the leaderboard with its token refreshes
NextStore ==
  \/ \E d \in TickSteps : Tick(d)
  \/ \E q \in StateParams : Login(q)
  \/ \E q \in StateParams, code \in CodeParams : CallbackStart(q, code)
  \/ \E c \in callbacks, reply \in ExchangeReplies : CallbackToken(c, reply)
  \/ \E c \in callbacks, reply \in ProfileReplies : CallbackProfile(c, reply)
  \/ \E user \in Users : UnlinkMe(user)
  \/ \E r \in UnlinkRequests : Unlink(r.admin, r.target)
  \/ \E r \in UnlinkNameRequests : UnlinkName(r.admin, r.name)
  \/ \E saveBaseline \in BOOLEAN : LbStart(saveBaseline)
  \/ \E p \in passes, reply \in RefreshReplies : LbRefresh(p, reply)
  \/ \E p \in passes, reply \in RootReplies : LbRoot(p, reply)
  \/ \E p \in passes, reply \in ChartReplies : LbChart(p, reply)

SpecStore == Init /\ [][NextStore]_vars

\* The linking flow alone
NextLink ==
  \/ \E d \in TickSteps : Tick(d)
  \/ \E q \in StateParams : Login(q)
  \/ \E q \in StateParams, code \in CodeParams : CallbackStart(q, code)
  \/ \E c \in callbacks, reply \in ExchangeReplies : CallbackToken(c, reply)
  \/ \E c \in callbacks, reply \in ProfileReplies : CallbackProfile(c, reply)

SpecLink == InitLink /\ [][NextLink]_vars

\* The PKCE sessions alone: logins and callbacks up to the token exchange
NextSession ==
  \/ \E d \in TickSteps : Tick(d)
  \/ \E q \in StateParams : Login(q)
  \/ \E q \in StateParams, code \in CodeParams : CallbackStart(q, code)
  \/ \E c \in callbacks, reply \in ExchangeReplies : CallbackToken(c, reply)

SpecSession == InitSession /\ [][NextSession]_vars

\* The unlink commands alone
NextUnlink ==
  \/ \E user \in Users : UnlinkMe(user)
  \/ \E r \in UnlinkRequests : Unlink(r.admin, r.target)
  \/ \E r \in UnlinkNameRequests : UnlinkName(r.admin, r.name)

SpecUnlink == InitUnlink /\ [][NextUnlink]_vars

\* The bot starts on a store of linked drivers.
InitBoard ==
  /\ Started
  /\ file \in {RankedStore, GrownStore}
  /\ last = Reply("init", "", 0, 0, "")
  /\ histories = {"board", "gvat", "unlinked"}
  /\ cron = CronIdle
  /\ call = NoCall
  /\ baseline = Saved(file, {})

\* The leaderboard, the stats command and /unlinkme alone
NextBoard ==
  \/ \E d \in TickSteps : Tick(d)
  \/ \E user \in Users : UnlinkMe(user)
  \/ \E saveBaseline \in BOOLEAN : LbStart(saveBaseline)
  \/ \E p \in passes, reply \in RefreshReplies : LbRefresh(p, reply)
  \/ \E p \in passes, reply \in RootReplies : LbRoot(p, reply)
  \/ \E p \in passes, reply \in ChartReplies : LbChart(p, reply)
  \/ \E user \in Users : StatsStart(user)
  \/ \E s \in statsCmds : StatsAvatar(s)
  \/ \E s \in statsCmds, reply \in RefreshReplies : StatsRefresh(s, reply)

SpecBoard == InitBoard /\ [][NextBoard]_vars

\* The leaderboard alone, on tokens that are fresh
NextPass ==
  \/ \E saveBaseline \in BOOLEAN : LbStart(saveBaseline)
  \/ \E p \in passes, reply \in RootReplies : LbRoot(p, reply)
  \/ \E p \in passes, reply \in ChartReplies : LbChart(p, reply)

SpecPass == InitBoard /\ [][NextPass]_vars

\* ------------------------------------------------- the ranking of part_004
\* Ratings the update loop leaves on the records
RankRatings == {1500, 1800, 2000}

\* A rating or none
OptRatings == {<<>>} \cup {<<v>> : v \in RankRatings}

\* The j-th record of GrownStore with the rating ir and the rank r
stored(j, ir, r) ==
  LET d == GrownStore[j]
      base == [k \in DOMAIN d \ {"lastIRating", "lastChange", "lastRank"}
                 |-> d[k]]
      rated == IF ir = <<>> THEN base
               ELSE [lastIRating |-> ir[1], lastChange |-> 0] @@ base
  IN IF r = 0 THEN rated ELSE ("lastRank" :> r) @@ rated

\* Ranks left by earlier rankings, 0 for none: no two records carry the
\* same one
RankChoices(n) ==
  {f \in [1..n -> 0..MaxRank] :
     \A a, b \in 1..n : (a # b /\ f[a] # 0) => f[a] # f[b]}

\* The arrays of n records the ranking starts from
CronInputs(n) ==
  { [j \in 1..n |-> stored(j, irs[j], rks[j])] :
      irs \in [1..n -> OptRatings], rks \in RankChoices(n) }

\* The weekly job of part_004 has loaded the store and updated the ratings
\* (part_004:335-354) and is about to rank.
InitRank ==
  /\ Started
  /\ last = Reply("off", "", 0, 0, "")
  /\ histories = {}
  /\ \E n \in 1..3 : \E drivers \in CronInputs(n) :
       /\ file = drivers
       /\ cron = [pc |-> "updated", loaded |-> drivers, drivers |-> drivers,
                  announcements |-> <<>>]
  /\ call = NoCall
  /\ baseline = Saved(file, {})

\* part_004:356-381: sort, announce the gains, rank, save
CronRank ==
  /\ cron.pc = "updated"
  /\ LET sorted == sortDrivers(cron.drivers)
         ranked == rankDrivers(sorted)
     IN /\ cron' = [cron EXCEPT !.pc = "ranked", !.drivers = ranked,
                      !.announcements = announcementsOf(sorted, Len(sorted))]
        /\ file' = ranked
  /\ UNCHANGED <<now, pkceStore, issued, callbacks, runs, passes, gvat,
                 lastLogin, exchanged, last, statsCmds, statsRuns, unlinked,
                 histories, call, baseline>>

NextRank == CronRank

SpecRank == InitRank /\ [][NextRank]_vars

\* ------------------------------------------- links and unlinks during a pass
\* The bot starts on a store it saved before and keeps the link and unlink
\* events.
InitRace ==
  /\ Started
  /\ file = SavedStore
  /\ last = Reply("init", "", 0, 0, "")
  /\ histories = {"link", "unlink"}
  /\ cron = CronIdle
  /\ call = NoCall
  /\ baseline = Saved(file, {})

\* The linking flow, /unlinkme and the leaderboard on tokens that are fresh
NextRace ==
  \/ \E q \in StateParams : Login(q)
  \/ \E q \in StateParams, code \in CodeParams : CallbackStart(q, code)
  \/ \E c \in callbacks, reply \in ExchangeReplies : CallbackToken(c, reply)
  \/ \E c \in callbacks, reply \in ProfileReplies : CallbackProfile(c, reply)
  \/ \E user \in Users : UnlinkMe(user)
  \/ \E saveBaseline \in BOOLEAN : LbStart(saveBaseline)
  \/ \E p \in passes, reply \in RootReplies : LbRoot(p, reply)
  \/ \E p \in passes, reply \in ChartReplies : LbChart(p, reply)

SpecRace == InitRace /\ [][NextRace]_vars

\* ------------------------------------------------ the store's file on its own
\* A store whose names hold a quotation mark and a backslash
QuotedStore ==
  << [SavedStore[1] EXCEPT !.iracingName = <<"O", "\"", "N", " ", "\\", ".">>,
                           !.lastChange = -25] >>

\* The arrays that are saved: the stores above, or arrays of n records
JsonInputs(n) ==
  IF n = 0 THEN {<<>>, SavedStore, RankedStore, GrownStore, QuotedStore}
  ELSE CronInputs(n)

\* saveLinkedDrivers is about to be called on an array
InitJson ==
  /\ Started
  /\ last = Reply("off", "", 0, 0, "")
  /\ histories = {}
  /\ cron = CronIdle
  /\ file = <<>>
  /\ \E n \in 0..3 : \E drivers \in JsonInputs(n) :
       call = [pc |-> "save", arg |-> drivers, text |-> <<>>,
               result |-> <<>>]
  /\ baseline = Saved(file, {})

\* index.js:64-72: the array is written as JSON text
JsonSave ==
  /\ call.pc = "save"
  /\ call' = [call EXCEPT !.pc = "load", !.text = stringify(call.arg)]
  /\ UNCHANGED <<now, pkceStore, issued, file, callbacks, runs, passes, gvat,
                 lastLogin, exchanged, last, statsCmds, statsRuns, cron,
                 unlinked, histories, baseline>>

\* index.js:53-62: the text is read back
JsonLoad ==
  /\ call.pc = "load"
  /\ call' = [call EXCEPT !.pc = "loaded", !.result = parse(call.text)]
  /\ UNCHANGED <<now, pkceStore, issued, file, callbacks, runs, passes, gvat,
                 lastLogin, exchanged, last, statsCmds, statsRuns, cron,
                 unlinked, histories, baseline>>

NextJson == JsonSave \/ JsonLoad

SpecJson == InitJson /\ [][NextJson]_vars

\* ----------------------------------------------------- maskSecret on its own
\* Client secrets and client ids: spellings that differ in letter case, in
\* white space around them and in white space inside them
Secrets ==
  { <<"S", "k", "1">>, <<"s", "k", "1">>, <<" ", "S", "k", "1">>,
    <<"S", "k", "2">> }
ClientIds ==
  { <<"A", "b">>, <<"a", "b">>, <<" ", "a", "B", " ">>, <<"a", " ", "b">>,
    <<"a", "c">> }

\* maskSecret is about to be called twice
InitMask ==
  /\ Started
  /\ last = Reply("off", "", 0, 0, "")
  /\ histories = {}
  /\ cron = CronIdle
  /\ file = <<>>
  /\ \E s1 \in Secrets, s2 \in Secrets, c1 \in ClientIds, c2 \in ClientIds :
       call = [pc |-> "mask", arg |-> <<[secret |-> s1, clientId |-> c1],
                                        [secret |-> s2, clientId |-> c2]>>,
               text |-> <<>>, result |-> <<>>]
  /\ baseline = Saved(file, {})

\* index.js:100 and 651: the calls of maskSecret
Mask ==
  /\ call.pc = "mask"
  /\ call' = [call EXCEPT
                !.pc = "masked",
                !.result = [j \in 1..2 |->
                              maskSecret(call.arg[j].secret,
                                         call.arg[j].clientId)]]
  /\ UNCHANGED <<now, pkceStore, issued, file, callbacks, runs, passes, gvat,
                 lastLogin, exchanged, last, statsCmds, statsRuns, cron,
                 unlinked, histories, baseline>>

NextMask == Mask

SpecMask == InitMask /\ [][NextMask]_vars

\* ------------------------------------------- several leaderboard invocations
\* The bot starts on the store a weekly pass saved, with a record linked
\* since, and what the weekly passes save is kept.
InitViews ==
  /\ Started
  /\ file = GrownStore
  /\ last = Reply("init", "", 0, 0, "")
  /\ histories = {"board", "baseline"}
  /\ cron = CronIdle
  /\ call = NoCall
  /\ baseline = Saved(file, {})

\* /leaderboard and the weekly job, on tokens that are fresh
NextViews ==
  \/ \E saveBaseline \in BOOLEAN : LbStart(saveBaseline)
  \/ \E p \in passes, reply \in RootReplies : LbRoot(p, reply)
  \/ \E p \in passes, reply \in ChartReplies : LbChart(p, reply)

SpecViews == InitViews /\ [][NextViews]_vars

\* ------------------------------------------- the announcer of src/announcer.js
\* SQL NULL is <<>>, an INTEGER v is <<v>>.
\* announcer.js:9: row a comes before row b under ORDER BY irating DESC.
\* SQLite puts NULL below every integer.
ahead(a, b) ==
  /\ a.irating # <<>>
  /\ b.irating = <<>> \/ a.irating[1] > b.irating[1]

\* A row is put after the rows it is not ahead of: rows of equal irating
\* come out in the order the table is scanned, by id.
RECURSIVE insertRow(_, _)
insertRow(sorted, d) ==
  IF sorted = <<>> THEN <<d>>
  ELSE IF ahead(d, sorted[1]) THEN <<d>> \o sorted
  ELSE <<sorted[1]>> \o insertRow(Tail(sorted), d)

\* announcer.js:7-10: SELECT * FROM drivers ORDER BY irating DESC
RECURSIVE selectDrivers(_)
selectDrivers(table) ==
  IF table = <<>> THEN <<>>
  ELSE insertRow(selectDrivers(SubSeq(table, 1, Len(table) - 1)),
                 table[Len(table)])

\* Mutant: only a move up is announced.
moved_upOnly(oldRank, newRank) ==
  oldRank # <<>> /\ oldRank[1] # 0 /\ oldRank[1] > newRank

\* announcer.js:16: oldRank && oldRank !== newRank
moved(oldRank, newRank) ==
  oldRank # <<>> /\ oldRank[1] # 0 /\ oldRank[1] # newRank

\* announcer.js:17-22: the text sent for a move
movementMessage(driver, oldRank, newRank) ==
  LET movement == oldRank - newRank
  IN [emoji |-> IF movement > 0 THEN "chart up" ELSE "chart down",
      name |-> driver.name,
      from |-> digits(oldRank), to |-> digits(newRank),
      by |-> (IF movement > 0 THEN <<"+">> ELSE <<>>) \o digits(movement)]

\* announcer.js:26-28: UPDATE drivers SET last_rank = ? WHERE id = ?
updateLastRank(table, newRank, id) ==
  [k \in DOMAIN table |->
     IF table[k].id = id THEN [table[k] EXCEPT !.last_rank = <<newRank>>]
     ELSE table[k]]

\* announcer.js:12-29: the loop from the row at `index` (0-based) on
RECURSIVE forEachDriver(_, _, _, _)
forEachDriver(drivers, index, table, sent) ==
  IF index >= Len(drivers) THEN [table |-> table, sent |-> sent]
  ELSE LET driver == drivers[index + 1]
           newRank == index + 1
           oldRank == driver.last_rank
       IN forEachDriver(
            drivers, index + 1,
            updateLastRank(table, newRank, driver.id),
            IF moved(oldRank, newRank)
            THEN Append(sent, movementMessage(driver, oldRank[1], newRank))
            ELSE sent)

\* announcer.js:57-64: UPDATE drivers SET irating = ? WHERE name = ?
updateIrating(table, irating, name) ==
  [k \in DOMAIN table |->
     IF table[k].name = name THEN [table[k] EXCEPT !.irating = <<irating>>]
     ELSE table[k]]

\* The iratings of the test script and of a driver that has none yet
RowRatings == {<<>>, <<1800>>, <<2300>>, <<2700>>}

DriverNames == <<"Driver One", "Driver Two", "Driver Three">>

\* The drivers tables of n rows, in the order of their ids; last_rank is
\* NULL or a position an earlier call stored
Tables(n) ==
  { [j \in 1..n |-> [id |-> j, name |-> DriverNames[j],
                     irating |-> irs[j], last_rank |-> rks[j]]] :
      irs \in [1..n -> RowRatings],
      rks \in [1..n -> {<<>>} \cup {<<r>> : r \in 1..MaxRank}] }

\* The table is there and checkForPositionChanges has not been called
InitAnnounce ==
  /\ Started
  /\ last = Reply("off", "", 0, 0, "")
  /\ histories = {}
  /\ cron = CronIdle
  /\ file = <<>>
  /\ \E n \in 2..3 : \E table \in Tables(n) :
       call = [pc |-> "table", arg |-> table, text |-> <<>>,
               result |-> <<>>, channel |-> FALSE]
  /\ baseline = Saved(file, {})

\* announcer.js:3-30.  `channel` tells whether the channel is in the cache.
\* The call keeps the table it left and what it sent.
checkForPositionChanges(channel) ==
  /\ call.pc \in {"table", "checked"}
  /\ LET done == IF channel
                 THEN forEachDriver(selectDrivers(call.arg), 0, call.arg,
                                    <<>>)
                 ELSE [table |-> call.arg, sent |-> <<>>]
     IN call' = [pc |-> IF call.pc = "table" THEN "checked" ELSE "rechecked",
                 arg |-> done.table, text |-> done.sent,
                 result |-> done.table, channel |-> channel]
  /\ UNCHANGED <<now, pkceStore, issued, file, callbacks, runs, passes, gvat,
                 lastLogin, exchanged, last, statsCmds, statsRuns, cron,
                 unlinked, histories, baseline>>

\* The test script sets an irating between two calls
SetIrating(name, irating) ==
  /\ call.pc = "checked" /\ call.arg = call.result
  /\ \E k \in DOMAIN call.arg : call.arg[k].name = name
  /\ call' = [call EXCEPT !.arg = updateIrating(call.arg, irating, name)]
  /\ call'.arg # call.arg
  /\ UNCHANGED <<now, pkceStore, issued, file, callbacks, runs, passes, gvat,
                 lastLogin, exchanged, last, statsCmds, statsRuns, cron,
                 unlinked, histories, baseline>>

NextAnnounce ==
  \/ \E channel \in BOOLEAN : checkForPositionChanges(channel)
  \/ \E k \in 1..3, v \in {1800, 2700} : SetIrating(DriverNames[k], v)

SpecAnnounce == InitAnnounce /\ [][NextAnnounce]_vars

\* ------------------------------------------ the replies of /leaderboard
\* The bot starts on an empty store or on a store with three records; the
\* replies to the commands and the token calls are kept.
InitReply ==
  /\ Started
  /\ file \in {<<>>, GrownStore}
  /\ last = Reply("init", "", 0, 0, "")
  /\ histories = {"board", "reply", "gvat"}
  /\ cron = CronIdle
  /\ call = NoCall
  /\ baseline = Saved(file, {})

\* The /leaderboard command while the clock moves and d1 unlinks
NextReply ==
  \/ \E d \in TickSteps : Tick(d)
  \/ \E user \in Users : UnlinkMe(user)
  \/ \E deferred \in BOOLEAN : LbCommand(deferred)
  \/ \E p \in passes, reply \in RefreshReplies : LbRefresh(p, reply)
  \/ \E p \in passes, reply \in RootReplies : LbRoot(p, reply)
  \/ \E p \in passes, reply \in ChartReplies : LbChart(p, reply)

\* index.js:101, 133, 140: every request to the provider that a pass waits
\* for is answered or fails
ProviderAnswers ==
  \A r \in 1..MaxViews :
    /\ WF_vars(\E p \in passes, reply \in RefreshReplies :
                 p.run = r /\ LbRefresh(p, reply))
    /\ WF_vars(\E p \in passes, reply \in RootReplies :
                 p.run = r /\ LbRoot(p, reply))
    /\ WF_vars(\E p \in passes, reply \in ChartReplies :
                 p.run = r /\ LbChart(p, reply))

SpecReply == InitReply /\ [][NextReply]_vars /\ ProviderAnswers

\* ================================================================ claims
\* A step of the linking flow that is recorded as `op`.  Every such step
\* that changes the state changes `last`: its verifier is drawn once.
LinkStep(op) == last' # last /\ last'.op = op

\* A /oauth/callback request that carries a code reaches the session check.
CallbackWithCode == LinkStep("callback") /\ last'.why # "missing code"

\* C1: PKCE sessions are single-use.  A callback gets past the session
\* check only by removing the entry of its state, whose verifier was in no
\* exchange before; the entry is gone from then on, whatever the exchange
\* returns, and comes back only by a login for that state; a callback with
\* a code that finds no entry is answered 400 and sends nothing.
C1_SingleUse ==
  [][ /\ (CallbackWithCode /\ last'.status = 0) =>
           /\ Has(pkceStore, last'.id)
           /\ last'.verifier = pkceStore[last'.id].verifier
           /\ last'.verifier \notin exchanged
           /\ ~Has(pkceStore', last'.id)
      /\ (CallbackWithCode /\ ~Has(pkceStore, last'.id)) =>
           /\ last'.status = 400
           /\ callbacks' = callbacks /\ exchanged' = exchanged
           /\ ~Has(pkceStore', last'.id)
      /\ exchanged' # exchanged =>
           /\ CallbackWithCode /\ last'.status = 0
           /\ exchanged' = exchanged \cup {last'.verifier}
      /\ \A s \in DOMAIN pkceStore' :
           (~Has(pkceStore, s) \/ pkceStore'[s] # pkceStore[s]) =>
             LinkStep("login") /\ last'.id = s
    ]_vars

\* A second callback for a state whose session the first one consumed was
\* turned away.
C1_Witness ==
  /\ last.op = "callback" /\ last.why = "no session" /\ last.status = 400
  /\ Has(lastLogin, last.id) /\ lastLogin[last.id] \in exchanged

\* C2: a token-exchange request is sent only by a callback that found the
\* session of its state present and not older than ten minutes, and its
\* code_verifier is the one the latest login for that state generated.
C2_ExchangeNeedsSession ==
  [][ \A c \in callbacks' \ callbacks :
        c.pc = "token" =>
          /\ Has(pkceStore, c.discordId)
          /\ now - pkceStore[c.discordId].createdAt <= TEN_MINUTES
          /\ c.code_verifier = pkceStore[c.discordId].verifier
          /\ Has(lastLogin, c.discordId)
          /\ c.code_verifier = lastLogin[c.discordId]
    ]_vars

\* An exchange is in flight for one state while the session of another
\* state, opened before it, is still pending.
C2_Witness ==
  \E c \in callbacks :
    /\ c.pc = "token" /\ c.code_verifier = 2 /\ c.discordId = "d1"
    /\ Has(pkceStore, "unknown")

\* C3: a callback that finds the session of its state older than ten
\* minutes is answered 400, sends no exchange and leaves no entry for the
\* state, swept or not.
C3_ExpiredRejected ==
  [][ (/\ CallbackWithCode
       /\ Has(pkceStore, last'.id)
       /\ now - pkceStore[last'.id].createdAt > TEN_MINUTES) =>
        /\ last'.status = 400
        /\ callbacks' = callbacks /\ exchanged' = exchanged
        /\ ~Has(pkceStore', last'.id)
    ]_vars

\* An expired session was turned away and removed by the callback itself.
C3_Witness ==
  /\ last.op = "callback" /\ last.why = "expired" /\ last.status = 400
  /\ ~Has(pkceStore, last.id)
  /\ last.verifier \notin exchanged

\* C8: a callback without a code is answered 400 and leaves the PKCE
\* store, the store of linked drivers and the requests in flight as they
\* were.
C8_MissingCode ==
  [][ (LinkStep("callback") /\ last'.why = "missing code") =>
        /\ last'.status = 400
        /\ UNCHANGED <<pkceStore, file, callbacks, exchanged>>
    ]_vars

\* A callback without a code was turned away while the session of its
\* state stays in the store.
C8_Witness ==
  /\ last.op = "callback" /\ last.why = "missing code" /\ last.status = 400
  /\ Has(pkceStore, last.id)

\* The records of discordId id in a list of drivers
recordsOf(drivers, id) == {i \in 1..Len(drivers) : drivers[i].discordId = id}

HistoryFields == {"lastIRating", "lastChange", "lastRank"}

\* C5: a callback that completes for discordId id leaves exactly one record
\* for id, with the tokens and the expiry of its exchange and the name of
\* its profile, and with lastIRating, lastChange and lastRank as the record
\* of id had them before, unset when there was none.
C5_RelinkKeepsHistory ==
  [][ (LinkStep("profile") /\ last'.status = 200) =>
        LET id == last'.id
            c == CHOOSE x \in callbacks : x.code_verifier = last'.verifier
            old == recordsOf(file, id)
            new == recordsOf(file', id)
            r == file'[CHOOSE i \in new : TRUE]
        IN /\ Cardinality(new) = 1
           /\ r.accessToken = c.tokenData.access_token
           /\ r.refreshToken = c.tokenData.refresh_token
           /\ r.expiresAt = now + c.tokenData.expires_in * 1000
           /\ r.iracingName \in {Unknown, displayName(JesseDoe)}
           /\ Has(last'.got.body, "iracing_name") =>
                r.iracingName = displayName(last'.got.body.iracing_name)
           /\ \A k \in HistoryFields :
                IF old = {} THEN ~Has(r, k)
                ELSE LET o == file[CHOOSE i \in old : TRUE]
                     IN /\ Has(r, k) = Has(o, k)
                        /\ Has(o, k) => r[k] = o[k]
    ]_vars

\* A ranked driver linked again: new tokens, the old rating and rank.
C5_Witness ==
  /\ last.op = "profile" /\ last.status = 200 /\ last.id = "d1"
  /\ Len(file) = 1
  /\ file[1].accessToken = "a2" /\ file[1].expiresAt > SavedStore[1].expiresAt
  /\ \A k \in HistoryFields : Has(file[1], k)
  /\ file[1].lastIRating = 1500 /\ file[1].lastChange = 0 /\ file[1].lastRank = 1

\* C6: a profile fetch that fails (the request fails, a non-success
\* response, no name in it) does not abort linking: the callback answers
\* with success and the record is saved under the name "Unknown".
C6_ProfileFailureStillLinks ==
  [][ (/\ LinkStep("profile")
       /\ \/ last'.got.threw
          \/ ~last'.got.ok
          \/ ~Has(last'.got.body, "iracing_name")) =>
        /\ last'.status = 200
        /\ \E i \in recordsOf(file', last'.id) : file'[i].iracingName = Unknown
    ]_vars

C4_UniqueIds ==
  \A i, j \in 1..Len(file) : i # j => file[i].discordId # file[j].discordId

\* Two linked drivers, saved by a pass that ranked them and refreshed a
\* token on the way.
C4_Witness ==
  /\ Len(file) = 2
  /\ \E i \in 1..2 : Has(file[i], "lastRank")
  /\ \E i \in 1..2 : file[i].accessToken = "a3"

\* A getValidAccessToken call is entered: gvat records the call, its time
\* and the record it was given.
TokenCallEntered == gvat' # gvat /\ gvat'.phase \in {"fast", "sent"}

\* The pass that made the call g, the /stats command that made it
callerOf(ps, g) == {p \in ps : g.i > 0 /\ p.run = g.run /\ p.i = g.i}
statsCallerOf(ss, g) == {s \in ss : g.i = 0 /\ s.run = g.run}

\* The callers of g that wait for the answer to a refresh request
refreshing(ps, ss, g) ==
  {p \in callerOf(ps, g) : p.pc = "refresh"}
    \cup {s \in statsCallerOf(ss, g) : s.pc = "refresh"}

\* C9: a call at a time before expiresAt - 60000 sends no refresh request
\* and returns the record's accessToken; the record and the saved store
\* are as they were.
C9_FreshTokenReused ==
  [][ (TokenCallEntered /\ gvat'.at < gvat'.user.expiresAt - 60000) =>
        /\ gvat'.phase = "fast"
        /\ gvat'.token = gvat'.user.accessToken
        /\ refreshing(passes', statsCmds', gvat') = {}
        /\ file' = file
        /\ gvat'.i > 0 =>
             \E p \in callerOf(passes', gvat') :
               /\ p.pc = "root"
               /\ p.token = gvat'.user.accessToken
               /\ p.drivers[p.i] = gvat'.user
    ]_vars

\* A pass holds the token of a record that was still fresh.
C9_Witness ==
  /\ gvat.phase = "fast"
  /\ gvat.at < gvat.user.expiresAt - 60000
  /\ \E p \in callerOf(passes, gvat) :
       p.pc = "root" /\ p.token = gvat.user.accessToken

\* C10: a call at a time not before expiresAt - 60000 sends one refresh
\* request, none after it; a successful response makes the call return the
\* response's access_token and sets expiresAt to the time of the response
\* plus expires_in * 1000, which is later than that time.
C10_StaleTokenRefreshed ==
  [][ /\ (TokenCallEntered /\ gvat'.at >= gvat'.user.expiresAt - 60000) =>
           /\ gvat'.phase = "sent"
           /\ gvat'.token = ""
           /\ refreshing(passes, statsCmds, gvat') = {}
           /\ Cardinality(refreshing(passes', statsCmds', gvat')) = 1
      /\ (gvat' # gvat /\ gvat'.phase = "refreshed") =>
           /\ Cardinality(refreshing(passes, statsCmds, gvat')) = 1
           /\ refreshing(passes', statsCmds', gvat') = {}
           /\ gvat'.token = gvat'.data.access_token
           /\ gvat'.i > 0 =>
                \E p \in callerOf(passes', gvat') :
                  /\ p.pc = "root"
                  /\ p.token = gvat'.data.access_token
                  /\ p.drivers[p.i].accessToken = gvat'.data.access_token
                  /\ p.drivers[p.i].expiresAt =
                       now + gvat'.data.expires_in * 1000
                  /\ p.drivers[p.i].expiresAt > now
      /\ \A p \in passes : \A q \in passes' :
           (q.run = p.run /\ q.i = p.i /\ p.pc # "refresh") =>
             q.pc # "refresh"
      /\ \A s \in statsCmds : \A r \in statsCmds' :
           (r.run = s.run /\ s.pc = "refresh") => r = s
    ]_vars

\* A token in its last minute was refreshed: the call was made before
\* expiresAt, the pass holds the new token.
C10_Witness ==
  /\ gvat.phase = "refreshed"
  /\ gvat.at < gvat.user.expiresAt
  /\ \E p \in callerOf(passes, gvat) :
       /\ p.pc = "root" /\ p.token = "a3"
       /\ p.drivers[p.i].expiresAt = gvat.at + 660000

\* A refresh request was answered with a non-success response in this
\* step: gvat records the error, with the call it ended (phase "failed") or
\* with the call the same pass made next.
RefreshRejected ==
  /\ gvat' # gvat
  /\ gvat'.thrown # NotThrown
  /\ ~gvat'.thrown.threw /\ ~gvat'.thrown.ok

\* The call that RefreshRejected ended
rejectedCall ==
  [run |-> gvat'.run,
   i |-> IF gvat'.phase = "failed" THEN gvat'.i ELSE gvat'.i - 1]

\* The token fields of the records of id in drivers
tokensOf(drivers, id) ==
  {[accessToken |-> drivers[i].accessToken,
    refreshToken |-> drivers[i].refreshToken,
    expiresAt |-> drivers[i].expiresAt] : i \in recordsOf(drivers, id)}

\* C11: a non-success response to the refresh request makes the call throw
\* "Token refresh failed"; the caller gets no token, the record keeps its
\* accessToken, refreshToken and expiresAt, and the call writes nothing to
\* the store (a weekly pass that ends in the same step saves its list).
C11_RefreshRejected ==
  [][ RefreshRejected =>
        LET g == rejectedCall
        IN /\ gvat'.thrown.error = "Token refresh failed"
           /\ Cardinality(refreshing(passes, statsCmds, g)) = 1
           /\ callerOf(passes', g) = {}
           /\ statsCallerOf(statsCmds', g) = {}
           /\ gvat'.phase = "failed" => gvat'.token = ""
           /\ g.i = 0 => file' = file
           /\ \A p \in callerOf(passes, g) :
                LET id == p.drivers[p.i].discordId
                    left == {q \in passes' : q.run = p.run}
                IN /\ \A q \in left : q.drivers[p.i] = p.drivers[p.i]
                   /\ left # {} => file' = file
                   /\ left = {} =>
                        /\ last'.op = "leaderboard" /\ last'.verifier = p.run
                        /\ tokensOf(last'.drivers, id)
                             = tokensOf(p.drivers, id)
                        /\ file' = IF p.saveBaseline THEN last'.drivers
                                   ELSE file
    ]_vars

\* The refresh for d1 was rejected in a pass over three drivers, which went
\* on to the third with d1's record as it was.
C11_Witness ==
  /\ gvat.thrown # NotThrown
  /\ gvat.thrown.error = "Token refresh failed"
  /\ gvat.i = 3
  /\ \E p \in callerOf(passes, gvat) :
       /\ p.drivers[2] = GrownStore[2]
       /\ p.ir = <<>>
  /\ file = GrownStore


\* A refresh succeeded in this step: gvat records the call, the record it
\* was given and the response.
TokenRefreshed == gvat' # gvat /\ gvat'.phase = "refreshed"

\* C12: after a successful refresh the record's refreshToken is the
\* response's refresh_token when it has one, the record's previous
\* refreshToken when it has none.
C12_RefreshTokenKept ==
  [][ TokenRefreshed =>
        LET expected == IF Has(gvat'.data, "refresh_token")
                        THEN gvat'.data.refresh_token
                        ELSE gvat'.user.refreshToken
        IN /\ \A p \in callerOf(passes', gvat') :
                /\ Has(p.drivers[p.i], "refreshToken")
                /\ p.drivers[p.i].refreshToken = expected
           /\ gvat'.i > 0 => callerOf(passes', gvat') # {}
           /\ \A t \in tokensOf(file', gvat'.user.discordId) :
                t.refreshToken = expected
    ]_vars

\* The response had no refresh_token: the pass's record and the saved one
\* have the new access token and the old refresh token.
C12_Witness ==
  /\ gvat.phase = "refreshed"
  /\ ~Has(gvat.data, "refresh_token")
  /\ gvat.user.discordId = "d1"
  /\ \E p \in callerOf(passes, gvat) :
       /\ p.drivers[p.i].accessToken = "a3"
       /\ p.drivers[p.i].refreshToken = "r1"
  /\ tokensOf(file, "d1")
       = {[accessToken |-> "a3", refreshToken |-> "r1", expiresAt |-> 1260000]}

\* C13: when a call returns the token of a successful refresh and the
\* store has a record of that discordId, the saved record already holds the
\* new accessToken, refreshToken and expiresAt, whoever the caller is: a
\* pass in either mode or a /stats command.
C13_PersistedBeforeReturn ==
  [][ (TokenRefreshed /\ recordsOf(file, gvat'.user.discordId) # {}) =>
        /\ gvat'.token = gvat'.data.access_token
        /\ tokensOf(file', gvat'.user.discordId) =
             {[accessToken |-> gvat'.data.access_token,
               refreshToken |-> IF Has(gvat'.data, "refresh_token")
                                THEN gvat'.data.refresh_token
                                ELSE gvat'.user.refreshToken,
               expiresAt |-> now + gvat'.data.expires_in * 1000]}
        /\ \A p \in callerOf(passes', gvat') : p.token = gvat'.token
    ]_vars

\* A /stats command got a refreshed token for d1 while a pass was under
\* way: the saved record of d1 has it.
C13_Witness ==
  /\ gvat.phase = "refreshed" /\ gvat.i = 0
  /\ gvat.token = "a3"
  /\ passes # {}
  /\ \E t \in tokensOf(file, "d1") : t.accessToken = "a3" /\ t.expiresAt > now

\* The passes of the same invocation as p after the step: none when p ended
after(p) == {q \in passes' : q.run = p.run}

\* The lookup of p.drivers[p.i] ends in this step: the pass goes on to the
\* next record, or ends and sends its list.
LookupDone(p) ==
  /\ p \in passes
  /\ \A q \in after(p) : q.i = p.i + 1
  /\ after(p) = {} => last' # last /\ last'.verifier = p.run

\* What the lookup returned, <<>> for null
resultOf(p) ==
  IF after(p) = {} THEN last'.ir ELSE (CHOOSE q \in after(p) : TRUE).ir

\* The list of the pass after the step
listAfter(p) ==
  IF after(p) = {} THEN last'.drivers
  ELSE (CHOOSE q \in after(p) : TRUE).drivers

\* The record of id in a list that has one
recordOf(drivers, id) == drivers[CHOOSE i \in recordsOf(drivers, id) : TRUE]

\* r and o agree on field k: both lack it, or both have it with one value
SameField(r, o, k) == Has(r, k) = Has(o, k) /\ (Has(o, k) => r[k] = o[k])

\* C14: in a pass over N records, a lookup that fails (it returns null:
\* refresh failure, network error, non-success response, no link, empty
\* series) leaves lastIRating and lastChange of its record as they were; no
\* lookup touches another record; after each lookup the pass goes on to the
\* next record, and after the last it ranks all N records.
C14_FailureIsolated ==
  [][ \A p \in passes :
        /\ after(p) = {} =>
             /\ p.i = Len(p.drivers)
             /\ last'.op = "leaderboard" /\ last'.verifier = p.run
        /\ LookupDone(p) =>
             LET list == listAfter(p)
             IN /\ Len(list) = Len(p.drivers)
                /\ idsOf(list) = idsOf(p.drivers)
                /\ \A j \in 1..Len(p.drivers) :
                     (j # p.i \/ resultOf(p) = <<>>) =>
                       LET o == p.drivers[j]
                           r == recordOf(list, o.discordId)
                       IN /\ SameField(r, o, "lastIRating")
                          /\ SameField(r, o, "lastChange")
                /\ p.i < Len(p.drivers) =>
                     \E q \in after(p) : q.pc \in {"root", "refresh"}
                /\ p.i = Len(p.drivers) =>
                     /\ after(p) = {}
                     /\ \A j \in 1..Len(list) :
                          Has(list[j], "lastRank") /\ list[j].lastRank = j
    ]_vars

\* In a pass over three records the lookup of the first gave a rating, the
\* lookup of the second failed on its refresh, and the pass is at the third.
C14_Witness ==
  \E p \in passes :
    /\ Len(p.drivers) = 3 /\ p.i = 3 /\ p.ir = <<>>
    /\ p.drivers[1].lastIRating = 1500 /\ p.drivers[1].lastChange = -500
    /\ p.drivers[2].lastIRating = 1500 /\ p.drivers[2].lastChange = -100
    /\ gvat.thrown # NotThrown

\* C15: a lookup that returns a rating v sets the record's lastIRating to
\* v and its lastChange to v minus the lastIRating the pass loaded, or to 0
\* when the record had none.
C15_ChangeFromLoaded ==
  [][ \A p \in passes : (LookupDone(p) /\ resultOf(p) # <<>>) =>
        LET v == resultOf(p)[1]
            o == p.drivers[p.i]
            r == recordOf(listAfter(p), o.discordId)
        IN /\ Has(r, "lastIRating") /\ r.lastIRating = v
           /\ Has(r, "lastChange")
           /\ r.lastChange = IF Has(o, "lastIRating") THEN v - o.lastIRating
                             ELSE 0
    ]_vars

\* A pass ended with a gain of 500 for d1 and a first rating, with change
\* 0, for the record linked last.
C15_Witness ==
  /\ last.op = "leaderboard"
  /\ Len(last.drivers) = 3
  /\ LET d == recordOf(last.drivers, "d1")
         u == recordOf(last.drivers, "unknown")
     IN /\ d.lastIRating = 2000 /\ d.lastChange = 500
        /\ Has(u, "lastIRating") /\ u.lastIRating = 1500 /\ u.lastChange = 0

\* The place of the record of id in a list of unique ids
posOf(drivers, id) ==
  CHOOSE j \in 1..Len(drivers) : drivers[j].discordId = id

\* C16: the list a pass p ends with holds the records p loaded, ordered by
\* lastIRating descending with an unset rating counted as 0; records of
\* equal rating stand in the order in which they were loaded; and the
\* record at place j carries lastRank = j, so the ranks are exactly 1..N.
C16_RankedList ==
  [][ \A p \in passes :
        (after(p) = {} /\ last'.op = "leaderboard"
           /\ last'.verifier = p.run) =>
          LET list == last'.drivers
              N == Len(p.drivers)
          IN /\ Len(list) = N
             /\ idsOf(list) = idsOf(p.drivers)
             /\ \A j \in 1..N :
                  Has(list[j], "lastRank") /\ list[j].lastRank = j
             /\ {list[j].lastRank : j \in 1..N} = 1..N
             /\ \A a, b \in 1..N :
                  a < b =>
                    /\ sortKey(list[a]) >= sortKey(list[b])
                    /\ sortKey(list[a]) = sortKey(list[b]) =>
                         posOf(p.drivers, list[a].discordId)
                           < posOf(p.drivers, list[b].discordId)
    ]_vars

\* A pass over three records ended: the record loaded last leads with 2000,
\* the two records of 1500 follow in the order in which they were loaded.
C16_Witness ==
  /\ last.op = "leaderboard"
  /\ Len(last.drivers) = 3
  /\ last.drivers[1].discordId = "unknown" /\ last.drivers[1].lastIRating = 2000
  /\ last.drivers[2].discordId = "d2" /\ last.drivers[2].lastIRating = 1500
  /\ last.drivers[3].discordId = "d1" /\ last.drivers[3].lastIRating = 1500
  /\ \A j \in 1..3 : last.drivers[j].lastRank = j

\* The places of the announcements that name the rank j
eventsAt(announcements, j) ==
  {k \in 1..Len(announcements) : announcements[k].rank = j}

\* C17: the ranking of part_004 announces a record exactly when the record
\* carried a rank and its new rank is smaller, with spots = old rank - new
\* rank; a record whose rank is the same, worse or was unset is not
\* announced.  Ratings 1500, 2000, 1800 with ranks 2, 1, 3 give the ranks
\* 3, 1, 2 and one announcement, for the record of 1800.
C17_RankEvents ==
  [][ (cron.pc = "updated" /\ cron'.pc = "ranked") =>
        LET old == cron.drivers
            new == cron'.drivers
            ann == cron'.announcements
            N == Len(old)
            gains == {j \in 1..N :
                        LET o == recordOf(old, new[j].discordId)
                        IN Has(o, "lastRank") /\ j < o.lastRank}
        IN /\ Len(new) = N
           /\ Len(ann) = Cardinality(gains)
           /\ \A j \in 1..N :
                LET o == recordOf(old, new[j].discordId)
                IN IF j \in gains
                   THEN /\ Cardinality(eventsAt(ann, j)) = 1
                        /\ \A k \in eventsAt(ann, j) :
                             /\ ann[k].spots = o.lastRank - j
                             /\ ann[k].name = o.iracingName
                   ELSE eventsAt(ann, j) = {}
           /\ (/\ N = 3
               /\ \A j \in 1..3 : Has(old[j], "lastIRating")
                                    /\ Has(old[j], "lastRank")
               /\ <<old[1].lastIRating, old[2].lastIRating,
                    old[3].lastIRating>> = <<1500, 2000, 1800>>
               /\ <<old[1].lastRank, old[2].lastRank, old[3].lastRank>>
                    = <<2, 1, 3>>) =>
                /\ recordOf(new, old[1].discordId).lastRank = 3
                /\ recordOf(new, old[2].discordId).lastRank = 1
                /\ recordOf(new, old[3].discordId).lastRank = 2
                /\ ann = <<gained(old[3], 1, 2)>>
    ]_vars

\* The ranking ran on 1500, 2000, 1800 with the ranks 2, 1, 3: the record
\* of 1800 is second now and is the one announced.
C17_Witness ==
  /\ cron.pc = "ranked"
  /\ Len(cron.loaded) = 3
  /\ \A j \in 1..3 : Has(cron.loaded[j], "lastIRating")
                       /\ Has(cron.loaded[j], "lastRank")
  /\ <<cron.loaded[1].lastIRating, cron.loaded[2].lastIRating,
       cron.loaded[3].lastIRating>> = <<1500, 2000, 1800>>
  /\ <<cron.loaded[1].lastRank, cron.loaded[2].lastRank,
       cron.loaded[3].lastRank>> = <<2, 1, 3>>
  /\ cron.drivers[2].discordId = cron.loaded[3].discordId
  /\ Len(cron.announcements) = 1
  /\ cron.announcements[1].rank = 2 /\ cron.announcements[1].spots = 1

\* The persisted ratings, changes and ranks, record by record in file order
historyOf(drivers) ==
  [j \in 1..Len(drivers) |->
     [k \in DOMAIN drivers[j] \cap (HistoryFields \cup {"discordId"}) |->
        drivers[j][k]]]

\* C18: no step of a leaderboard invocation with saveBaseline = FALSE, and
\* no start of an invocation, changes the lastIRating, lastChange or
\* lastRank of a record of the store or the order of its records; a step of
\* an invocation that changes them is the last step of a weekly one.
C18_CommandLeavesBaseline ==
  [][ /\ runs' # runs => historyOf(file') = historyOf(file)
      /\ \A p \in passes :
           p \notin passes' =>
             /\ ~p.saveBaseline => historyOf(file') = historyOf(file)
             /\ historyOf(file') # historyOf(file) =>
                  p.saveBaseline /\ after(p) = {}
    ]_vars

\* A /leaderboard command has shown d1 first with 2000 while the store
\* still holds d2 first and d1 with 1500 at rank 2.
C18_Witness ==
  /\ last.op = "leaderboard"
  /\ ~last.saveBaseline
  /\ last.drivers[1].discordId = "d1"
  /\ last.drivers[1].lastIRating = 2000 /\ last.drivers[1].lastChange = 500
  /\ last.drivers[1].lastRank = 1
  /\ Len(file) >= 2
  /\ SubSeq(historyOf(file), 1, 2) = historyOf(RankedStore)

\* The places of the records whose lower-cased name contains the query,
\* trimmed and lower-cased
matching(drivers, query) ==
  {i \in 1..Len(drivers) :
     includes(lowerCase(drivers[i].iracingName), lowerCase(trim(query)))}

\* C19: an administrator's /unlinkname whose query matches exactly one
\* record leaves the store as it was without that record, the others as
\* they were and in their order; one whose query matches no record or more
\* than one returns before the save and leaves the store as it was.
C19_UnlinkByName ==
  [][ (LinkStep("unlinkname") /\ last'.why # "Administrators only.") =>
        LET M == matching(file, last'.name)
        IN IF Cardinality(M) = 1
           THEN LET m == CHOOSE i \in M : TRUE
                IN /\ file' = SubSeq(file, 1, m - 1)
                                \o SubSeq(file, m + 1, Len(file))
                   /\ last'.why = "unlinked"
                   /\ last'.removed = {file[m].discordId}
           ELSE /\ file' = file
                /\ last'.removed = {}
                /\ last'.why = IF M = {} THEN "No driver found"
                               ELSE "Multiple matches"
    ]_vars

\* /unlinkname " Je" took d1 out of a store of two records: the record of
\* "unknown" is what is left.
C19_Witness ==
  /\ last.op = "unlinkname"
  /\ last.why = "unlinked"
  /\ last.name = <<" ", "J", "e">>
  /\ last.removed = {"d1"}
  /\ Len(file) = 1
  /\ file[1].discordId = "unknown"

\* C20: an unlink is durable.  Once unlinkme, unlink or unlinkname has
\* removed the record of a discordId, the store holds no record of it until
\* a callback for it completes with a link, whatever passes, stats commands
\* and refreshes are in flight.  (unlinked: the ids removed by an unlink and
\* not linked again since.)
C20_UnlinkDurable ==
  \A id \in unlinked : recordsOf(file, id) = {}

\* C21: the last step of a weekly pass writes the whole store: the store
\* afterwards is the list the pass loaded at its start, ranked, so it holds
\* exactly the discordIds loaded then.  A record linked since is gone and a
\* record unlinked since is back.
C21_LastWriterWins ==
  [][ \A p \in passes :
        (p.saveBaseline /\ after(p) = {}) =>
          /\ Len(file') = Len(p.drivers)
          /\ idsOf(file') = idsOf(p.drivers)
          /\ \A id \in idsOf(file) \ idsOf(p.drivers) :
               recordsOf(file', id) = {}
          /\ \A id \in idsOf(p.drivers) \ idsOf(file) :
               recordsOf(file', id) # {}
    ]_vars

\* The last link or unlink was the callback that linked "unknown", and the
\* store does not hold its record: the weekly pass that had loaded the store
\* before has saved since.
C21_Witness ==
  /\ last.op = "profile" /\ last.status = 200 /\ last.id = "unknown"
  /\ recordsOf(file, "unknown") = {}
  /\ passes = {}
  /\ runs = 1

\* C22: when a /oauth/login for state s has completed, the PKCE store
\* holds an entry for s with the verifier of that login and createdAt = the
\* time of the login, and no entry of any state is older than ten minutes.
C22_LoginSweeps ==
  [][ LinkStep("login") =>
        /\ Has(pkceStore', last'.id)
        /\ pkceStore'[last'.id].createdAt = now'
        /\ pkceStore'[last'.id].verifier = last'.verifier
        /\ \A key \in DOMAIN pkceStore' :
             now' - pkceStore'[key].createdAt <= TEN_MINUTES
    ]_vars

\* Twenty minutes after the login for d1, whose verifier was never sent, a
\* login for "unknown" has completed: its entry is the only one left.
C22_Witness ==
  /\ last.op = "login" /\ last.id = "unknown"
  /\ now = 2 * TEN_MINUTES
  /\ Has(lastLogin, "d1") /\ lastLogin["d1"] \notin exchanged
  /\ DOMAIN pkceStore = {"unknown"}
  /\ pkceStore["unknown"].createdAt = now

\* C23: the store round trip.  Loading the text saveLinkedDrivers wrote
\* for an array of N records gives N records in the same order; each has
\* the properties that were set on the saved one, with the same values, and
\* no others.
C23_RoundTrip ==
  [][ (call.pc = "load" /\ call'.pc = "loaded") =>
        LET saved == call.arg
            loaded == call'.result
        IN /\ Len(loaded) = Len(saved)
           /\ \A j \in 1..Len(saved) :
                /\ DOMAIN loaded[j] = DOMAIN saved[j]
                /\ \A k \in DOMAIN saved[j] : loaded[j][k] = saved[j][k]
    ]_vars

\* The store of three records came back from its text: the negative change
\* of the second, and the third still without rating and rank.
C23_Witness ==
  /\ call.pc = "loaded"
  /\ call.arg = GrownStore
  /\ Len(call.text) > 3
  /\ Len(call.result) = 3
  /\ call.result[2].lastChange = -100
  /\ call.result[1].expiresAt = 1320000
  /\ DOMAIN call.result[3] \cap HistoryFields = {}

\* Two client ids differ in nothing but letter case and the white space
\* around them
sameClient(a, b) == lowerCase(trim(a)) = lowerCase(trim(b))

\* C24: two calls of maskSecret with the same secret and client ids that
\* differ only in letter case or surrounding white space give the same
\* result (so do two calls with the same arguments); two calls whose secrets
\* differ in any character, letter case and white space included, give
\* different results for such client ids.
C24_MaskSecret ==
  call.pc = "masked" =>
    LET a == call.arg[1]
        b == call.arg[2]
    IN /\ (a.secret = b.secret /\ sameClient(a.clientId, b.clientId)) =>
            call.result[1] = call.result[2]
       /\ (a.secret # b.secret /\ sameClient(a.clientId, b.clientId)) =>
            call.result[1] # call.result[2]

\* Both cases at once are not one state: here the secrets differ in letter
\* case only, the client ids in case and white space, and the results
\* differ.
C24_Witness ==
  /\ call.pc = "masked"
  /\ call.arg[1] = [secret |-> <<"S", "k", "1">>, clientId |-> <<"A", "b">>]
  /\ call.arg[2] = [secret |-> <<"s", "k", "1">>,
                    clientId |-> <<" ", "a", "B", " ">>]
  /\ call.result[1] # call.result[2]

\* A getValidAccessToken call of a pass threw in this step (the refresh
\* request failed or was answered with a non-success response)
TokenCallThrew == gvat' # gvat /\ gvat'.i > 0 /\ gvat'.thrown # NotThrown

\* C25: a pass sends the rating request of a record only with the token
\* its getValidAccessToken call for that record has just returned: the
\* record's accessToken at a time before expiresAt - 60000, or the
\* access_token of the refresh response.  While the refresh is awaited the
\* lookup holds no token; when the call throws, the pass has left the record
\* and never comes back to it.
C25_NoStaleToken ==
  [][ /\ \A q \in passes' :
           (q.pc = "root" /\ q \notin passes) =>
             /\ gvat'.run = q.run /\ gvat'.i = q.i
             /\ gvat'.phase \in {"fast", "refreshed"}
             /\ q.token = gvat'.token /\ q.token # ""
             /\ q.token = q.drivers[q.i].accessToken
             /\ now' < q.drivers[q.i].expiresAt - 60000
             /\ gvat'.phase = "refreshed" =>
                  q.token = gvat'.data.access_token
      /\ \A q \in passes' : q.pc = "refresh" => q.token = ""
      /\ \A p \in passes : \A q \in passes' :
           q.run = p.run =>
             /\ q.i >= p.i
             /\ (q.i = p.i /\ p.pc # "refresh") => q.pc # "refresh"
             /\ (q.i = p.i /\ q.pc = "chart" /\ p.pc = "chart") => q = p
      /\ TokenCallThrew => callerOf(passes', rejectedCall) = {}
    ]_vars

\* The refresh for the second record has failed: the pass is at the third
\* record and the history shows no rating request for the second.
C25_Witness ==
  /\ gvat.thrown # NotThrown
  /\ gvat.i = 3
  /\ \E p \in passes :
       /\ p.run = gvat.run /\ p.i = 3
       /\ p.ir = <<>>
       /\ p.drivers[2] = GrownStore[2]

\* The lastIRating the last weekly pass saved for id, <<>> when it saved
\* none
baselineOf(id) ==
  LET at == {j \in recordsOf(baseline.drivers, id) :
               Has(baseline.drivers[j], "lastIRating")}
  IN IF at = {} THEN <<>>
     ELSE <<baseline.drivers[CHOOSE j \in at : TRUE].lastIRating>>

\* C26: between two weekly passes the saved ratings, changes and ranks stay
\* as the last weekly pass saved them, whatever /leaderboard commands run;
\* and each command that runs between them (it was not in flight when the
\* weekly pass saved) computes for a record with a fresh rating v the change
\* v - the lastIRating saved by that weekly pass, 0 when none is saved.
C26_ViewsKeepBaseline ==
  [][ /\ historyOf(file') = historyOf(baseline'.drivers)
      /\ \A p \in passes :
           (/\ ~p.saveBaseline
            /\ p.run \notin baseline.during
            /\ LookupDone(p)
            /\ resultOf(p) # <<>>) =>
             LET id == p.drivers[p.i].discordId
                 v == resultOf(p)[1]
                 r == recordOf(listAfter(p), id)
                 b == baselineOf(id)
             IN /\ r.lastIRating = v
                /\ r.lastChange = IF b = <<>> THEN 0 ELSE v - b[1]
    ]_vars

\* Two /leaderboard commands have run on the store of the weekly pass: the
\* second shows d1 at 2000 with +500 against the saved 1500, and the record
\* without a saved rating at 1500 with 0.
C26_Witness ==
  /\ runs = 2 /\ passes = {}
  /\ baseline = Saved(GrownStore, {})
  /\ last.op = "leaderboard" /\ last.verifier = 2 /\ ~last.saveBaseline
  /\ Has(recordOf(last.drivers, "d1"), "lastChange")
  /\ Has(recordOf(last.drivers, "unknown"), "lastIRating")
  /\ recordOf(last.drivers, "d1").lastIRating = 2000
  /\ recordOf(last.drivers, "d1").lastChange = 500
  /\ recordOf(last.drivers, "unknown").lastIRating = 1500
  /\ recordOf(last.drivers, "unknown").lastChange = 0
  /\ historyOf(file) = historyOf(GrownStore)

\* C27: a pass has at most one request in flight.  It starts with the
\* first record; the request of a lookup gives way to the next request of
\* the same lookup (refresh, rating, chart), or, when the lookup of record k
\* has returned or failed, to the first request for record k + 1.
C27_OneAtATime ==
  [][ /\ \A p, q \in passes' : p.run = q.run => p = q
      /\ \A q \in passes' \ passes :
           LET before == {p \in passes : p.run = q.run}
           IN IF before = {}
              THEN q.i = 1 /\ q.run = runs' /\ runs' = runs + 1
                     /\ q.pc \in {"refresh", "root"}
              ELSE \A p \in before :
                     /\ p \notin passes'
                     /\ \/ /\ q.i = p.i
                           /\ \/ p.pc = "refresh" /\ q.pc = "root"
                              \/ p.pc = "root" /\ q.pc = "chart"
                        \/ /\ q.i = p.i + 1
                           /\ q.pc \in {"refresh", "root"}
    ]_vars

\* The pass is at its third record, with the ratings the first two lookups
\* returned, and it is the one request of its invocation.
C27_Witness ==
  \E p \in passes :
    /\ p.i = 3 /\ p.pc = "chart"
    /\ p.drivers[1].lastIRating = 1500 /\ p.drivers[1].lastChange = -500
    /\ p.ir = <<2000>>
    /\ {q \in passes : q.run = p.run} = {p}

\* The properties a token refresh writes
TokenFields == {"accessToken", "refreshToken", "expiresAt"}

\* C28: the step that persists a refresh leaves the store as it reads it,
\* but for accessToken, refreshToken and expiresAt of the record with the
\* caller's discordId; when the store has no such record it is not written
\* and the record does not come back.
C28_RefreshWritesTokensOnly ==
  [][ TokenRefreshed =>
        LET id == gvat'.user.discordId
        IN /\ Len(file') = Len(file)
           /\ \A k \in 1..Len(file) :
                IF file[k].discordId = id
                THEN /\ DOMAIN file'[k] \ TokenFields
                          = DOMAIN file[k] \ TokenFields
                     /\ \A x \in DOMAIN file[k] \ TokenFields :
                          file'[k][x] = file[k][x]
                ELSE file'[k] = file[k]
           /\ recordsOf(file, id) = {} =>
                file' = file /\ recordsOf(file', id) = {}
    ]_vars

\* A refresh for d1 succeeded after d1 was unlinked: the store has the
\* other records and none for d1.
C28_Witness ==
  /\ gvat.phase = "refreshed"
  /\ gvat.user.discordId = "d1"
  /\ gvat.token = "a3"
  /\ "d1" \in unlinked
  /\ recordsOf(file, "d1") = {}
  /\ file # <<>>

\* C29: the step on which a callback completes reads the store and saves
\* it with the record of its discordId replaced or added; the records of
\* the other discordIds stay as that step found them, in their order, so
\* the record another callback saved is still there.
C29_LinksKeepEachOther ==
  [][ (LinkStep("profile") /\ last'.status = 200) =>
        /\ idsOf(file') = idsOf(file) \cup {last'.id}
        /\ withoutId(file', last'.id) = withoutId(file, last'.id)
        /\ Len(file') = Len(withoutId(file, last'.id)) + 1
        /\ file'[Len(file')].discordId = last'.id
    ]_vars

\* Two callbacks, for d1 and for a request without state, both succeeded
\* on a store that was empty at the start: it has a record for each.
C29_Witness ==
  /\ baseline.drivers = <<>>
  /\ last.op = "profile" /\ last.status = 200
  /\ exchanged = {1, 2}
  /\ callbacks = {}
  /\ idsOf(file) = {"d1", "unknown"}
  /\ Len(file) = 2

\* Verifier v is out of use: no exchange has sent it and no session holds it.
superseded(v, store, sent) ==
  /\ v \notin sent
  /\ \A s \in DOMAIN store : store[s].verifier # v

\* C30: a state has one pending session.  A login for a state whose session
\* is pending puts its own verifier and the time of the login in the place
\* of the earlier ones; a callback sends the verifier of the latest login
\* for its state; a verifier that was replaced before it was sent is never
\* sent.
C30_OneSessionPerState ==
  [][ /\ (LinkStep("login") /\ Has(pkceStore, last'.id)) =>
           /\ pkceStore'[last'.id] =
                [verifier |-> last'.verifier, createdAt |-> now]
           /\ last'.verifier # pkceStore[last'.id].verifier
           /\ superseded(pkceStore[last'.id].verifier, pkceStore', exchanged')
      /\ \A c \in callbacks' \ callbacks :
           c.pc = "token" =>
             /\ c.code_verifier = lastLogin[c.discordId]
             /\ exchanged' = exchanged \cup {lastLogin[c.discordId]}
      /\ \A v \in 1..issued :
           superseded(v, pkceStore, exchanged) =>
             superseded(v, pkceStore', exchanged')
    ]_vars

\* Two logins for d1, then the callback: the exchange in flight carries the
\* second verifier and the first was never sent.
C30_Witness ==
  /\ issued = 2 /\ DOMAIN lastLogin = {"d1"}
  /\ exchanged = {2}
  /\ \E c \in callbacks :
       c.pc = "token" /\ c.discordId = "d1" /\ c.code_verifier = 2
  /\ superseded(1, pkceStore, exchanged)

\* The row of the table with the given id
rowOf(table, id) == table[CHOOSE k \in DOMAIN table : table[k].id = id]

\* The position of the row with the given id by irating descending: one
\* more than the rows with a higher irating, a row without irating counting
\* as the lowest, and rows of equal irating counted in the order of ids.
positionOf(table, id) ==
  LET r == rowOf(table, id)
      key(x) == IF x.irating = <<>> THEN -1 ELSE x.irating[1]
  IN 1 + Cardinality({k \in DOMAIN table :
                        \/ key(table[k]) > key(r)
                        \/ key(table[k]) = key(r) /\ table[k].id < id})

\* C31: a call of checkForPositionChanges that finds the channel sends one
\* message for each driver whose last_rank is set and is not its position
\* by irating descending, up or down, and none for the others; it leaves
\* every last_rank equal to that position and changes nothing else; a
\* second call on unchanged iratings sends nothing.
C31_PositionChanges ==
  [][ (call'.pc \in {"checked", "rechecked"} /\ call'.pc # call.pc
         /\ call'.channel) =>
        LET old == call.arg
            new == call'.arg
            sent == call'.text
            ids == {old[k].id : k \in DOMAIN old}
            changed == {i \in ids :
                          /\ rowOf(old, i).last_rank # <<>>
                          /\ rowOf(old, i).last_rank[1] # positionOf(old, i)}
        IN /\ Len(sent) = Cardinality(changed)
           /\ \A i \in changed :
                LET o == rowOf(old, i).last_rank[1]
                    n == positionOf(old, i)
                IN \E m \in 1..Len(sent) :
                     /\ sent[m].name = rowOf(old, i).name
                     /\ sent[m].from = digits(o) /\ sent[m].to = digits(n)
                     /\ sent[m].emoji =
                          IF n < o THEN "chart up" ELSE "chart down"
                     /\ numberOf(IF sent[m].by[1] = "+"
                                 THEN Tail(sent[m].by) ELSE sent[m].by)
                          = o - n
           /\ DOMAIN new = DOMAIN old
           /\ \A k \in DOMAIN old :
                new[k] = [old[k] EXCEPT
                            !.last_rank = <<positionOf(old, old[k].id)>>]
           /\ (call.pc = "checked" /\ call.channel /\ call.arg = call.result)
                => sent = <<>>
    ]_vars

\* Driver Two went from third to first and Driver One from first to
\* second: both were announced, one up and one down, and the ranks stored.
C31_Witness ==
  /\ call.pc = "checked" /\ call.channel
  /\ Len(call.text) = 2
  /\ {<<call.text[m].name, call.text[m].emoji, call.text[m].by>> :
        m \in 1..2}
       = {<<"Driver Two", "chart up", <<"+", "2">>>>,
          <<"Driver One", "chart down", <<"-", "1">>>>}
  /\ Len(call.arg) = 3
  /\ <<call.arg[1].last_rank, call.arg[2].last_rank, call.arg[3].last_rank>>
       = << <<2>>, <<1>>, <<3>> >>

\* The replies a /leaderboard command ends with
CommandReplies == {"sent", NoDriversLinked, LeaderboardFailed}

\* The latest reply l is a reply of the r-th invocation, and ps holds no
\* pass of it
endedWith(r, l, ps) ==
  /\ l.op = "leaderboard" /\ l.verifier = r
  /\ l.why \in CommandReplies
  /\ \A p \in ps : p.run # r

\* The command that was the r-th invocation has replied and is over
replied(r) == endedWith(r, last, passes)

\* C32: when every request to the provider is answered or fails, each
\* /leaderboard command comes to an end with one of its three replies: no
\* drivers linked, the list, or the failure message.  A command that starts
\* no pass replies in the step it arrives in; a pass under way comes to its
\* end; and a pass ends only in a step that replies.
C32_CommandReplies ==
  /\ [][ /\ (runs' = runs + 1 /\ \A q \in passes' : q.run # runs')
              => endedWith(runs', last', passes')
         /\ \A p \in passes :
              (\A q \in passes' : q.run # p.run)
                => endedWith(p.run, last', passes')
       ]_vars
  /\ \A r \in 1..MaxViews :
       (\E p \in passes : p.run = r) ~> replied(r)

\* A command went through all three records, the last lookup returned a
\* rating, and Discord refused the list: the command ended with the
\* failure message.
C32_Witness ==
  /\ runs = 1 /\ passes = {}
  /\ last.op = "leaderboard" /\ last.verifier = 1
  /\ last.why = LeaderboardFailed
  /\ gvat.run = 1 /\ gvat.i = 3

====
